---- MODULE Spec2Model ----
(***************************************************************************)
(* Task orchestration and recovery engine of the DSJ automation backend:   *)
(* the durable store (tasks, task details, accounts), the in-process       *)
(* TaskManager state (cancelled_tasks, running_tasks), the background      *)
(* coroutines run_task and retry_single_detail, the API handlers that      *)
(* schedule them, and the startup recovery sweep.                          *)
(*                                                                         *)
(* Coroutines run on one asyncio event loop: code between two awaits runs  *)
(* without another coroutine or async handler in between.  `active` names  *)
(* the coroutine that holds the loop; it is 0 when the loop is idle.       *)
(* Handlers declared with plain `def` (cancel_task, create_account,        *)
(* delete_account) run in the thread pool and may act at any time, and so  *)
(* may a crash of the process.                                             *)
(***************************************************************************)
EXTENDS Integers, Sequences, FiniteSets, TLC

\* ---------------------------------------------------------------- bounds
NumAccounts == 3
NumTasks == 1
MaxFlows == 2
SerialFlows == 1
CountCap == 1

\* ------------------------------------------------------ program constants
\* a batch one wider, and one more automatic retry
BATCH_SIZE_Wider == 2 + 1
MAX_AUTO_RETRIES_More == 2 + 1

BATCH_SIZE == 2
MAX_AUTO_RETRIES == 2

AccountCodes == 1..NumAccounts
TaskIds == 1..NumTasks
FlowIds == 1..MaxFlows
DetailIdx == 1..NumAccounts

\* TaskStatus and ResultStatus (models.py)
T_PENDING == "pending"
T_RUNNING == "running"
T_COMPLETED == "completed"
T_FAILED == "failed"
R_PENDING == "pending"
R_RUNNING == "running"
R_SUCCESS == "success"
R_FAILED == "failed"

\* None for the nullable text columns, and for the nullable balance
NULL == "NULL"
NoBalance == 0

\* result messages written by the code
MsgCrash == "Server bi crash khi dang chay"
MsgCancelled == "Task cancelled"
MsgNoAccountDb == "Account not found in database"
MsgNoAccount == "Account not found"
MsgOk == "Thanh cong"
MsgOkRetry == "Thanh cong (sau retry)"
MsgStep == "Loi tai buoc: error"
MsgExc == "Exception during processing: e"
MsgRetryStep == "Retry failed: Loi tai buoc: error"
MsgRetryExc == "Retry failed: Exception during processing: e"
MsgErr == "error"
MsgRaised == "e"
ShotOk == "screenshot"
ShotFail == "failed_step"

\* What one Executor invocation can produce: a success result, a structured
\* failure result, or a raised exception.
ResultKinds == {"ok", "fail", "exc"}

VARIABLES
    up,               \* the process is running and startup_event has run
    accounts,         \* account codes present in table accounts
    tasks,            \* table tasks: task id -> row, or NoTask
    details,          \* table task_details: task id -> rows in id order
    cancelled_tasks,  \* TaskManager.cancelled_tasks
    flow,             \* background coroutines, scheduled or started
    active,           \* the coroutine holding the event loop, or 0
    running_automations  \* AutomationManager.running_automations: <<key, owner>>

vars == <<up, accounts, tasks, details, cancelled_tasks, flow, active,
         running_automations>>

\* TaskManager.running_tasks: created empty, and no code path inserts into it.
running_tasks == {}

NoTask == [status |-> "none", total_accounts |-> 0, success_count |-> 0,
           failed_count |-> 0, total_balance |-> 0]

NoFlow == [kind |-> "none", pc |-> "none", task_id |-> 0, detail_id |-> 0,
           success_count |-> 0, failed_count |-> 0, total_balance |-> 0,
           retry_counts |-> [i \in DetailIdx |-> 0],
           pending_details |-> <<>>, details_to_retry |-> <<>>,
           batch_start |-> 0, retry_round |-> 0,
           batch_details |-> <<>>, tasks_to_run |-> <<>>,
           was_failed |-> FALSE, old_balance |-> 0,
           log |-> <<>>, cancel_seen |-> FALSE, crash_failed |-> {},
           last_success |-> 0, last_failed |-> 0, out |-> <<>>,
           email |-> <<>>, order_code |-> <<>>, result |-> NULL]

Exists(t) == tasks[t].status # "none"

\* stored counters are kept inside a window so that the state space is finite
InRange(c) == c \in (0 - CountCap)..(NumAccounts + CountCap)

Max(a, b) == IF a >= b THEN a ELSE b
Min(a, b) == IF a <= b THEN a ELSE b

\* indices of the rows of task t with a status in S, in id order
Idx(ds, t) == 1..Len(ds[t])
WithStatus(ds, t, S) == {i \in Idx(ds, t) : ds[t][i].status \in S}

RECURSIVE SetToSeq(_)
SetToSeq(S) ==
    IF S = {} THEN <<>>
    ELSE LET m == CHOOSE x \in S : \A y \in S : x <= y
         IN <<m>> \o SetToSeq(S \ {m})

SeqToSet(s) == {s[k] : k \in 1..Len(s)}

\* s[a:b] of Python, for 0-based a and b
Slice(s, a, b) == SubSeq(s, a + 1, Min(b, Len(s)))

\* ------------------------------------------------------------ the store

\* TaskManager._update_detail_status: None arguments leave the column alone
UpdateDetailStatus(ds, t, i, status, msg, bal, shot) ==
    [ds EXCEPT ![t][i] =
        [@ EXCEPT !.status = status,
                  !.result_message = IF msg # NULL THEN msg ELSE @,
                  !.balance = IF bal # NoBalance THEN bal ELSE @,
                  !.screenshot_path = IF shot # NULL THEN shot ELSE @]]

NewDetail(a) == [account_code |-> a, status |-> R_PENDING, balance |-> NoBalance,
                 result_message |-> NULL, screenshot_path |-> NULL]

\* The process is about to start on a store that holds the accounts and no task.
Init ==
    /\ up = FALSE
    /\ accounts = AccountCodes
    /\ tasks = [t \in TaskIds |-> NoTask]
    /\ details = [t \in TaskIds |-> <<>>]
    /\ cancelled_tasks = {}
    /\ flow = [f \in FlowIds |-> NoFlow]
    /\ active = 0
    /\ running_automations = {}

\* --------------------------------------------------- startup and crash

\* startup_event: the recovery sweep over the tasks stored as RUNNING
SweptTask(t) == Exists(t) /\ tasks[t].status = T_RUNNING
SweptItems(t) == IF SweptTask(t) THEN WithStatus(details, t, {R_RUNNING}) ELSE {}

\* a sweep that marks the tasks FAILED and leaves failed_count alone
RecoveredTasks_Uncounted ==
    [t \in TaskIds |->
        IF SweptTask(t) THEN [tasks[t] EXCEPT !.status = T_FAILED] ELSE tasks[t]]

RecoveredTasks ==
    [t \in TaskIds |->
        IF SweptTask(t)
        THEN [tasks[t] EXCEPT !.status = T_FAILED,
                              !.failed_count = @ + Cardinality(SweptItems(t))]
        ELSE tasks[t]]

\* a sweep that fails the PENDING rows of an interrupted task as well
RecoveredDetails_Pending ==
    [t \in TaskIds |->
        [i \in Idx(details, t) |->
            IF SweptTask(t) /\ details[t][i].status \in {R_RUNNING, R_PENDING}
            THEN [details[t][i] EXCEPT !.status = R_FAILED,
                                       !.result_message = MsgCrash]
            ELSE details[t][i]]]

RecoveredDetails ==
    [t \in TaskIds |->
        [i \in Idx(details, t) |->
            IF i \in SweptItems(t)
            THEN [details[t][i] EXCEPT !.status = R_FAILED,
                                       !.result_message = MsgCrash]
            ELSE details[t][i]]]

Startup ==
    /\ ~up
    /\ \A t \in TaskIds : InRange(RecoveredTasks[t].failed_count)
    /\ up' = TRUE
    /\ tasks' = RecoveredTasks
    /\ details' = RecoveredDetails
    /\ UNCHANGED <<accounts, cancelled_tasks, flow, active, running_automations>>

\* The process dies: everything in memory is lost, the store stays.
Crash ==
    /\ up
    /\ up' = FALSE
    /\ cancelled_tasks' = {}
    /\ flow' = [f \in FlowIds |-> NoFlow]
    /\ active' = 0
    /\ running_automations' = {}
    /\ UNCHANGED <<accounts, tasks, details>>

\* ------------------------------------------------------------ accounts

CreateAccount(a) ==
    /\ up
    /\ a \notin accounts
    /\ accounts' = accounts \cup {a}
    /\ UNCHANGED <<up, tasks, details, cancelled_tasks, flow, active,
                   running_automations>>

DeleteAccount(a) ==
    /\ up
    /\ a \in accounts
    /\ accounts' = accounts \ {a}
    /\ UNCHANGED <<up, tasks, details, cancelled_tasks, flow, active,
                   running_automations>>

\* ------------------------------------------------ background scheduling

\* BackgroundTasks.add_task: the coroutine is scheduled and starts after the
\* response has been sent.  A free slot holds it until it starts.
FreeSlots == {f \in FlowIds : flow[f].kind = "none"}

Scheduled(kind, t, i) ==
    LET f == CHOOSE x \in FreeSlots : \A y \in FreeSlots : x <= y
    IN [flow EXCEPT ![f] = [NoFlow EXCEPT !.kind = kind, !.pc = "scheduled",
                                          !.task_id = t, !.detail_id = i]]

\* the rows of task t that the recovery sweep failed and nothing has touched since
CrashFailed(t) ==
    {i \in Idx(details, t) : details[t][i].status = R_FAILED
                              /\ details[t][i].result_message = MsgCrash}

\* Scheduled, with the rows CrashFailed(t) noted in the coroutine's record until
\* its initial pass is over: a history value that no step of the code reads
ScheduledRun(t) ==
    LET f == CHOOSE x \in FreeSlots : \A y \in FreeSlots : x <= y
    IN [Scheduled("run", t, 0) EXCEPT ![f].crash_failed = CrashFailed(t)]

\* coroutines of kind run_task that have started and not yet returned
RunsInFlight(t) ==
    {f \in FlowIds : flow[f].kind = "run" /\ flow[f].task_id = t
                     /\ flow[f].pc # "scheduled"}

\* ------------------------------------------------------- API handlers

\* create_task: one PENDING detail per chosen account, then run_task_background
CreateTask(t, S) ==
    /\ up /\ active = 0
    /\ ~Exists(t)
    /\ \A u \in TaskIds : u < t => Exists(u)
    /\ S # {} /\ S \subseteq accounts
    /\ FreeSlots # {}
    /\ tasks' = [tasks EXCEPT ![t] =
            [status |-> T_PENDING, total_accounts |-> Cardinality(S),
             success_count |-> 0, failed_count |-> 0, total_balance |-> 0]]
    /\ details' = [details EXCEPT ![t] =
            [k \in 1..Cardinality(S) |-> NewDetail(SetToSeq(S)[k])]]
    /\ flow' = Scheduled("run", t, 0)
    /\ UNCHANGED <<up, accounts, cancelled_tasks, active, running_automations>>

\* TaskManager.cancel_task, behind the guard of the cancel_task handler
CancelledStore(t) ==
    IF t \in running_tasks THEN tasks
    ELSE IF tasks[t].status = T_RUNNING
         THEN [tasks EXCEPT ![t].status = T_FAILED]
         ELSE tasks

\* the value TaskManager.cancel_task returns
CancelReturn(t) ==
    IF t \in running_tasks THEN TRUE ELSE tasks[t].status = T_RUNNING

CancelTask(t) ==
    /\ up
    /\ Exists(t)
    /\ tasks[t].status = T_RUNNING
    /\ cancelled_tasks' = cancelled_tasks \cup {t}
    /\ tasks' = CancelledStore(t)
    /\ flow' = [f \in FlowIds |->
                  IF f \in RunsInFlight(t)
                  THEN [flow[f] EXCEPT !.cancel_seen = TRUE] ELSE flow[f]]
    /\ UNCHANGED <<up, accounts, details, active, running_automations>>

\* The cancel_task handler is a plain def, which the server runs in a worker
\* thread beside the event loop.  api.py lines 403-408: the handler has read the
\* task as RUNNING and is about to call TaskManager.cancel_task.
CancelCheck(t) ==
    /\ up
    /\ Exists(t)
    /\ tasks[t].status = T_RUNNING
    /\ FreeSlots # {}
    /\ flow' = Scheduled("cancel", t, 0)
    /\ UNCHANGED <<up, accounts, tasks, details, cancelled_tasks, active,
                   running_automations>>

\* api.py line 410: TaskManager.cancel_task adds the flag and, the task being in
\* no running_tasks, reads the task again for the fallback
CancelInsert(f) ==
    LET t == flow[f].task_id IN
    /\ up
    /\ flow[f].kind = "cancel"
    /\ cancelled_tasks' = cancelled_tasks \cup {t}
    /\ tasks' = CancelledStore(t)
    /\ flow' = [g \in FlowIds |->
                  IF g = f THEN NoFlow
                  ELSE IF g \in RunsInFlight(t)
                  THEN [flow[g] EXCEPT !.cancel_seen = TRUE] ELSE flow[g]]
    /\ UNCHANGED <<up, accounts, details, active, running_automations>>

\* the reset of one detail done by the retry and resume handlers
ResetDetail(d) == [d EXCEPT !.status = R_PENDING, !.result_message = NULL,
                            !.balance = NoBalance, !.screenshot_path = NULL]

\* retry_task_detail
RetryTaskDetail(t, i) ==
    /\ up /\ active = 0
    /\ Exists(t)
    /\ tasks[t].status # T_RUNNING
    /\ i \in Idx(details, t)
    /\ details[t][i].status \in {R_FAILED, R_PENDING}
    /\ FreeSlots # {}
    /\ tasks' = [tasks EXCEPT ![t].failed_count =
                    IF details[t][i].status = R_FAILED THEN Max(0, @ - 1) ELSE @]
    /\ details' = [details EXCEPT ![t][i] = ResetDetail(@)]
    /\ flow' = Scheduled("retry", t, i)
    /\ UNCHANGED <<up, accounts, cancelled_tasks, active, running_automations>>

\* a handler that starts the run and leaves the FAILED rows as they are
Requeued_PendingOnly(t, S) == details

\* the rows a handler re-queues, and the store after it reset the FAILED ones
Requeued(t, S) ==
    [details EXCEPT ![t] =
        [i \in Idx(details, t) |->
            IF i \in S /\ details[t][i].status = R_FAILED
            THEN ResetDetail(details[t][i]) ELSE details[t][i]]]

RequeuedCount(t, S) ==
    tasks[t].failed_count - Cardinality(S \cap WithStatus(details, t, {R_FAILED}))

\* retry_all_failed
RetryAllFailed(t) ==
    LET failed_details == WithStatus(details, t, {R_FAILED})
    IN /\ up /\ active = 0
       /\ Exists(t)
       /\ tasks[t].status # T_RUNNING
       /\ failed_details # {}
       /\ FreeSlots # {}
       /\ InRange(RequeuedCount(t, failed_details))
       /\ details' = Requeued(t, failed_details)
       /\ tasks' = [tasks EXCEPT ![t].failed_count = RequeuedCount(t, failed_details)]
       /\ flow' = Scheduled("run", t, 0)
       /\ UNCHANGED <<up, accounts, cancelled_tasks, active, running_automations>>

\* resume_task
\* a query that returns the FAILED rows alone
ResumeSet_FailedOnly(t) == WithStatus(details, t, {R_FAILED})

\* lines 572-575
ResumeSet(t) == WithStatus(details, t, {R_PENDING, R_FAILED})

\* the count the handler reports: len(pending_details)
ResumeCount(t) == Cardinality(ResumeSet(t))

\* lines 564-569: the task exists and is not stored as RUNNING
ResumeAccepted(t) == Exists(t) /\ tasks[t].status # T_RUNNING

ResumeTask(t) ==
    /\ up /\ active = 0
    /\ ResumeAccepted(t)
    /\ ResumeSet(t) # {}
    /\ FreeSlots # {}
    /\ InRange(RequeuedCount(t, ResumeSet(t)))
    /\ details' = Requeued(t, ResumeSet(t))
    /\ tasks' = [tasks EXCEPT ![t].failed_count = RequeuedCount(t, ResumeSet(t))]
    /\ flow' = ScheduledRun(t)
    /\ UNCHANGED <<up, accounts, cancelled_tasks, active, running_automations>>

\* ------------------------------------------------- repair and deletion

\* repair_incomplete_task: the account codes the task already has rows for, the
\* accounts of the store it has no row for, and the rows it may still take
ExistingCodes(ds, t) == {ds[t][i].account_code : i \in Idx(ds, t)}

MissingAccounts(ds, acc, t) == acc \ ExistingCodes(ds, t)

RepairRoom_Uncapped(tk, ds, t) == NumAccounts

RepairRoom(tk, ds, t) == Max(0, tk[t].total_accounts - Len(ds[t]))

\* the count the handler reports as added
AddedCount(tk, ds, acc, t) ==
    Min(Cardinality(MissingAccounts(ds, acc, t)), RepairRoom(tk, ds, t))

\* lines 262-267: the request is turned down with an HTTP error
RepairRejected(t) == ~Exists(t) \/ tasks[t].status = T_RUNNING

\* one PENDING row for each of the accounts S, the first AddedCount the query of
\* the missing accounts returned
RepairTask(t, S) ==
    /\ up
    /\ ~RepairRejected(t)
    /\ S \subseteq MissingAccounts(details, accounts, t)
    /\ Cardinality(S) = AddedCount(tasks, details, accounts, t)
    /\ details' = [details EXCEPT ![t] =
            @ \o [k \in 1..Cardinality(S) |-> NewDetail(SetToSeq(S)[k])]]
    /\ UNCHANGED <<up, accounts, tasks, cancelled_tasks, flow, active,
                   running_automations>>

\* delete_task and force_delete_task: the rows of the task, then its record
Purged_TaskOnly(t) == details

Purged(t) == [details EXCEPT ![t] = <<>>]

\* lines 420-426: the request is turned down with an HTTP error
DeleteRejected_Missing(t) == ~Exists(t)

DeleteRejected(t) == ~Exists(t) \/ tasks[t].status = T_RUNNING

DeleteTask(t) ==
    /\ up
    /\ ~DeleteRejected(t)
    /\ details' = Purged(t)
    /\ tasks' = [tasks EXCEPT ![t] = NoTask]
    /\ UNCHANGED <<up, accounts, cancelled_tasks, flow, active, running_automations>>

\* lines 316-318
ForceDeleteRejected(t) == ~Exists(t)

ForceDeleteTask(t) ==
    /\ up
    /\ ~ForceDeleteRejected(t)
    /\ details' = Purged(t)
    /\ tasks' = [tasks EXCEPT ![t] = NoTask]
    /\ UNCHANGED <<up, accounts, cancelled_tasks, flow, active, running_automations>>

\* ------------------------------------------------------------ run_task

Account(ds, t, i) == ds[t][i].account_code

\* the finally block of run_task: the coroutine returns and frees its slot
Cleanup(f) == [flow EXCEPT ![f] = NoFlow]
CleanedFlags(t) == cancelled_tasks \ {t}

\* lines 165-197: counters rebuilt from the stored statuses, PENDING rows queued
Partitioned(fl, t) ==
    [fl EXCEPT !.pc = "batch",
               !.success_count = Cardinality(WithStatus(details, t, {R_SUCCESS})),
               !.total_balance = Cardinality({i \in WithStatus(details, t, {R_SUCCESS}) :
                                                details[t][i].balance # NoBalance}),
               !.failed_count = Cardinality(WithStatus(details, t, {R_FAILED})),
               !.pending_details = SetToSeq(WithStatus(details, t, {R_PENDING})),
               !.batch_start = 0]

\* lines 139-197
RunStart(f) ==
    LET t == flow[f].task_id IN
    /\ up /\ active = 0
    /\ flow[f].kind = "run" /\ flow[f].pc = "scheduled"
    /\ IF ~Exists(t)
       THEN /\ flow' = Cleanup(f)
            /\ cancelled_tasks' = CleanedFlags(t)
            /\ UNCHANGED <<tasks, active>>
       ELSE IF t \in cancelled_tasks
       THEN /\ tasks' = [tasks EXCEPT ![t].status = T_FAILED]
            /\ flow' = Cleanup(f)
            /\ cancelled_tasks' = CleanedFlags(t)
            /\ UNCHANGED active
       ELSE IF Len(details[t]) = 0
       THEN /\ tasks' = [tasks EXCEPT ![t].status = T_COMPLETED]
            /\ flow' = Cleanup(f)
            /\ cancelled_tasks' = CleanedFlags(t)
            /\ UNCHANGED active
       ELSE /\ tasks' = [tasks EXCEPT ![t].status = T_RUNNING]
            /\ flow' = [flow EXCEPT ![f] = Partitioned(flow[f], t)]
            /\ active' = f
            /\ UNCHANGED cancelled_tasks
    /\ UNCHANGED <<up, accounts, details, running_automations>>

\* lines 205-211: the rows from batch_start on that are still PENDING are failed
RECURSIVE ForceFail(_, _, _, _)
ForceFail(st, t, rest, k) ==
    IF k > Len(rest) THEN st
    ELSE IF st.ds[t][rest[k]].status = R_PENDING
         THEN ForceFail([st EXCEPT
                    !.ds = UpdateDetailStatus(st.ds, t, rest[k], R_FAILED,
                                              MsgCancelled, NoBalance, NULL),
                    !.fc = @ + 1], t, rest, k + 1)
         ELSE ForceFail(st, t, rest, k + 1)

\* a lookup that finds an account for every row
AccountGone_Never(ds, t, i) == FALSE

\* lines 226-230 and 356-360: the lookup of the row's account finds nothing
AccountGone(ds, t, i) == Account(ds, t, i) \notin accounts

\* lines 223-249: a row whose account is gone is failed, the others are set
\* RUNNING and handed to the Executor
RECURSIVE Dispatch(_, _, _, _)
Dispatch(st, t, batch, k) ==
    IF k > Len(batch) THEN st
    ELSE IF AccountGone(st.ds, t, batch[k])
         THEN Dispatch([st EXCEPT
                    !.ds = UpdateDetailStatus(st.ds, t, batch[k], R_FAILED,
                                              MsgNoAccountDb, NoBalance, NULL),
                    !.fc = @ + 1], t, batch, k + 1)
         ELSE Dispatch([st EXCEPT
                    !.ds = UpdateDetailStatus(st.ds, t, batch[k], R_RUNNING,
                                              NULL, NoBalance, NULL),
                    !.ttr = Append(@, batch[k])], t, batch, k + 1)

\* lines 308-310: sleep between batches, or straight on to the loop head
AfterBatch(fl, queue, again, asleep) ==
    IF fl.batch_start + BATCH_SIZE < Len(queue)
    THEN [fl EXCEPT !.pc = asleep]
    ELSE [fl EXCEPT !.pc = again, !.batch_start = @ + BATCH_SIZE]

Holds(fl, f) == IF fl.pc \in {"gather", "sleep", "rgather", "rsleep"} THEN 0 ELSE f

\* lines 200-254: one turn of the loop over the batches of the initial pass
RunBatch(f) ==
    LET fl == flow[f]
        t == fl.task_id
        st0 == [ds |-> details, fc |-> fl.failed_count, ttr |-> <<>>]
        rest == Slice(fl.pending_details, fl.batch_start, Len(fl.pending_details))
        batch == Slice(fl.pending_details, fl.batch_start, fl.batch_start + BATCH_SIZE)
        ff == ForceFail(st0, t, rest, 1)
        dd == Dispatch(st0, t, batch, 1)
        sent == [fl EXCEPT !.failed_count = dd.fc, !.batch_details = batch,
                           !.tasks_to_run = dd.ttr]
        next == IF dd.ttr # <<>>
                THEN [sent EXCEPT !.pc = "gather", !.log = Append(@, dd.ttr)]
                ELSE AfterBatch(sent, fl.pending_details, "batch", "sleep")
    IN
    /\ up /\ active = f
    /\ fl.kind = "run" /\ fl.pc = "batch"
    /\ IF fl.batch_start >= Len(fl.pending_details)
       THEN /\ flow' = [flow EXCEPT ![f] = [fl EXCEPT !.pc = "retry", !.retry_round = 0,
                                                      !.crash_failed = {}]]
            /\ UNCHANGED <<details, active>>
       ELSE IF t \in cancelled_tasks
       THEN /\ details' = ff.ds
            /\ flow' = [flow EXCEPT ![f] = [fl EXCEPT !.pc = "retry", !.retry_round = 0,
                                                      !.failed_count = ff.fc,
                                                      !.crash_failed = {}]]
            /\ UNCHANGED active
       ELSE /\ details' = dd.ds
            /\ flow' = [flow EXCEPT ![f] = next]
            /\ active' = Holds(next, f)
    /\ UNCHANGED <<up, accounts, tasks, cancelled_tasks, running_automations>>

\* lines 257-303: zip(batch_details, results), results being those of tasks_to_run
RECURSIVE Apply(_, _, _, _, _)
Apply(st, t, batch, res, k) ==
    IF k > Min(Len(batch), Len(res)) THEN st
    ELSE IF Account(st.ds, t, batch[k]) \notin accounts
         THEN Apply(st, t, batch, res, k + 1)
    ELSE IF res[k] = "ok"
         THEN Apply([st EXCEPT
                    !.ds = UpdateDetailStatus(st.ds, t, batch[k], R_SUCCESS,
                                              MsgOk, 1, ShotOk),
                    !.sc = @ + 1, !.tb = @ + 1], t, batch, res, k + 1)
    ELSE Apply([st EXCEPT
                    !.ds = UpdateDetailStatus(st.ds, t, batch[k], R_FAILED,
                            IF res[k] = "fail" THEN MsgStep ELSE MsgExc, NoBalance,
                            IF res[k] = "fail" THEN ShotFail ELSE NULL),
                    !.fc = @ + 1], t, batch, res, k + 1)

Results(fl) == [1..Len(fl.tasks_to_run) -> ResultKinds]

\* line 254 returns: the batch has settled and its results are applied
RunGather(f, res) ==
    LET fl == flow[f]
        t == fl.task_id
        st == Apply([ds |-> details, sc |-> fl.success_count, fc |-> fl.failed_count,
                     tb |-> fl.total_balance], t, fl.batch_details, res, 1)
    IN
    /\ up /\ active = 0
    /\ fl.kind = "run" /\ fl.pc = "gather"
    /\ details' = st.ds
    /\ flow' = [flow EXCEPT ![f] = [fl EXCEPT !.pc = "counts", !.success_count = st.sc,
                                              !.failed_count = st.fc,
                                              !.total_balance = st.tb]]
    /\ active' = f
    /\ UNCHANGED <<up, accounts, tasks, cancelled_tasks, running_automations>>

\* TaskManager._update_task_counts
UpdateTaskCounts(t, fl) ==
    [tasks EXCEPT ![t].success_count = fl.success_count,
                  ![t].failed_count = fl.failed_count,
                  ![t].total_balance = fl.total_balance]

\* lines 305-310
RunCounts(f) ==
    LET fl == flow[f]
        next == AfterBatch(fl, fl.pending_details, "batch", "sleep")
    IN
    /\ up /\ active = f
    /\ fl.kind = "run" /\ fl.pc = "counts"
    /\ tasks' = UpdateTaskCounts(fl.task_id, fl)
    /\ flow' = [flow EXCEPT ![f] = next]
    /\ active' = Holds(next, f)
    /\ UNCHANGED <<up, accounts, details, cancelled_tasks, running_automations>>

\* asyncio.sleep(2) returns and the loop takes the next batch
RunSleep(f) ==
    /\ up /\ active = 0
    /\ flow[f].kind = "run" /\ flow[f].pc \in {"sleep", "rsleep"}
    /\ flow' = [flow EXCEPT ![f] =
                  [@ EXCEPT !.pc = IF @ = "sleep" THEN "batch" ELSE "rbatch",
                            !.batch_start = @ + BATCH_SIZE]]
    /\ active' = f
    /\ UNCHANGED <<up, accounts, tasks, details, cancelled_tasks, running_automations>>

\* ------------------------------------------------- run_task: retry rounds

\* lines 321-331: the FAILED rows whose retry count is below the limit
DetailsToRetry(fl, t) ==
    SetToSeq({i \in WithStatus(details, t, {R_FAILED}) :
                fl.retry_counts[i] < MAX_AUTO_RETRIES})

\* a loop over the retry rounds that has no last round
MoreRounds_Endless(fl) == TRUE

\* line 319: for retry_round in range(MAX_AUTO_RETRIES)
MoreRounds(fl) == fl.retry_round < MAX_AUTO_RETRIES

\* lines 319-335: the head of one retry round
RunRetryRound(f) ==
    LET fl == flow[f]
        t == fl.task_id
    IN
    /\ up /\ active = f
    /\ fl.kind = "run" /\ fl.pc = "retry"
    /\ flow' = [flow EXCEPT ![f] =
                  IF MoreRounds(fl) /\ DetailsToRetry(fl, t) # <<>>
                  THEN [fl EXCEPT !.pc = "rbatch", !.batch_start = 0,
                                  !.details_to_retry = DetailsToRetry(fl, t)]
                  ELSE [fl EXCEPT !.pc = "final"]]
    /\ UNCHANGED <<up, accounts, tasks, details, cancelled_tasks, active,
                   running_automations>>

\* lines 353-381: a row whose account is gone is skipped; the others have their
\* retry count raised, are reset (status PENDING, message None) and set RUNNING
RECURSIVE RetryDispatch(_, _, _, _)
RetryDispatch(st, t, batch, k) ==
    IF k > Len(batch) THEN st
    ELSE IF AccountGone(st.ds, t, batch[k])
         THEN RetryDispatch(st, t, batch, k + 1)
         ELSE RetryDispatch([st EXCEPT
                    !.rc[batch[k]] = @ + 1,
                    !.ds[t][batch[k]] = [@ EXCEPT !.status = R_RUNNING,
                                                  !.result_message = NULL],
                    !.ttr = Append(@, batch[k])], t, batch, k + 1)

\* lines 343-385: one turn of the loop over the batches of a retry round
RunRetryBatch(f) ==
    LET fl == flow[f]
        t == fl.task_id
        batch == Slice(fl.details_to_retry, fl.batch_start, fl.batch_start + BATCH_SIZE)
        dd == RetryDispatch([ds |-> details, rc |-> fl.retry_counts, ttr |-> <<>>],
                            t, batch, 1)
        sent == [fl EXCEPT !.retry_counts = dd.rc, !.batch_details = batch,
                           !.tasks_to_run = dd.ttr]
        next == IF dd.ttr # <<>>
                THEN [sent EXCEPT !.pc = "rgather", !.log = Append(@, dd.ttr)]
                ELSE AfterBatch(sent, fl.details_to_retry, "rbatch", "rsleep")
    IN
    /\ up /\ active = f
    /\ fl.kind = "run" /\ fl.pc = "rbatch"
    /\ IF fl.batch_start >= Len(fl.details_to_retry) \/ t \in cancelled_tasks
       THEN /\ flow' = [flow EXCEPT ![f] = [fl EXCEPT !.pc = "retry",
                                                      !.retry_round = @ + 1]]
            /\ UNCHANGED <<details, active>>
       ELSE /\ details' = dd.ds
            /\ flow' = [flow EXCEPT ![f] = next]
            /\ active' = Holds(next, f)
    /\ UNCHANGED <<up, accounts, tasks, cancelled_tasks, running_automations>>

\* a retry success that is counted and not taken off the failures
Transferred_Added(st) == [st EXCEPT !.sc = @ + 1, !.tb = @ + 1]

\* lines 411-416: a retry success moves from the failures to the successes
Transferred(st) == [st EXCEPT !.fc = @ - 1, !.sc = @ + 1, !.tb = @ + 1]

\* lines 388-426: zip(batch_details, results) again
RECURSIVE RetryApply(_, _, _, _, _)
RetryApply(st, t, batch, res, k) ==
    IF k > Min(Len(batch), Len(res)) THEN st
    ELSE IF Account(st.ds, t, batch[k]) \notin accounts
         THEN RetryApply(st, t, batch, res, k + 1)
    ELSE IF res[k] = "ok"
         THEN RetryApply([Transferred(st) EXCEPT
                    !.ds = UpdateDetailStatus(st.ds, t, batch[k], R_SUCCESS,
                                              MsgOkRetry, 1, ShotOk)],
                         t, batch, res, k + 1)
    ELSE RetryApply([st EXCEPT
                    !.ds = UpdateDetailStatus(st.ds, t, batch[k], R_FAILED,
                            IF res[k] = "fail" THEN MsgRetryStep ELSE MsgRetryExc,
                            NoBalance,
                            IF res[k] = "fail" THEN ShotFail ELSE NULL)],
                    t, batch, res, k + 1)

\* line 385 returns
RunRetryGather(f, res) ==
    LET fl == flow[f]
        t == fl.task_id
        st == RetryApply([ds |-> details, sc |-> fl.success_count,
                          fc |-> fl.failed_count, tb |-> fl.total_balance],
                         t, fl.batch_details, res, 1)
    IN
    /\ up /\ active = 0
    /\ fl.kind = "run" /\ fl.pc = "rgather"
    /\ details' = st.ds
    /\ flow' = [flow EXCEPT ![f] = [fl EXCEPT !.pc = "rcounts", !.success_count = st.sc,
                                              !.failed_count = st.fc,
                                              !.total_balance = st.tb]]
    /\ active' = f
    /\ UNCHANGED <<up, accounts, tasks, cancelled_tasks, running_automations>>

\* lines 428-433
RunRetryCounts(f) ==
    LET fl == flow[f]
        next == AfterBatch(fl, fl.details_to_retry, "rbatch", "rsleep")
    IN
    /\ up /\ active = f
    /\ fl.kind = "run" /\ fl.pc = "rcounts"
    /\ InRange(fl.failed_count)
    /\ tasks' = UpdateTaskCounts(fl.task_id, fl)
    /\ flow' = [flow EXCEPT ![f] = next]
    /\ active' = Holds(next, f)
    /\ UNCHANGED <<up, accounts, details, cancelled_tasks, running_automations>>

\* lines 436-438
FinalStatus_Failed(t) == T_FAILED

FinalStatus_AnyFailed(t) ==
    IF t \in cancelled_tasks \/ WithStatus(details, t, {R_FAILED}) # {}
    THEN T_FAILED ELSE T_COMPLETED
FinalStatus(t) == IF t \in cancelled_tasks THEN T_FAILED ELSE T_COMPLETED

\* lines 436-440
RunFinal(f) ==
    /\ up /\ active = f
    /\ flow[f].kind = "run" /\ flow[f].pc = "final"
    /\ tasks' = [tasks EXCEPT ![flow[f].task_id].status = FinalStatus(flow[f].task_id)]
    /\ flow' = [flow EXCEPT ![f].pc = "final_counts"]
    /\ UNCHANGED <<up, accounts, details, cancelled_tasks, active, running_automations>>

\* line 441, then the finally block
RunFinalCounts(f) ==
    /\ up /\ active = f
    /\ flow[f].kind = "run" /\ flow[f].pc = "final_counts"
    /\ InRange(flow[f].failed_count)
    /\ tasks' = UpdateTaskCounts(flow[f].task_id, flow[f])
    /\ flow' = Cleanup(f)
    /\ cancelled_tasks' = CleanedFlags(flow[f].task_id)
    /\ active' = 0
    /\ UNCHANGED <<up, accounts, details, running_automations>>

\* ------------------------------------------------- retry_single_detail

\* lines 473-514: up to the await of the Executor
RetryStart(f) ==
    LET t == flow[f].task_id
        i == flow[f].detail_id
    IN
    /\ up /\ active = 0
    /\ flow[f].kind = "retry" /\ flow[f].pc = "scheduled"
    /\ IF ~Exists(t) \/ i \notin Idx(details, t)
       THEN /\ flow' = Cleanup(f)
            /\ UNCHANGED details
       ELSE IF Account(details, t, i) \notin accounts
       THEN /\ details' = UpdateDetailStatus(details, t, i, R_FAILED, MsgNoAccount,
                                             NoBalance, NULL)
            /\ flow' = Cleanup(f)
       ELSE /\ details' = UpdateDetailStatus(details, t, i, R_RUNNING, NULL,
                                             NoBalance, NULL)
            /\ flow' = [flow EXCEPT ![f] =
                          [@ EXCEPT !.pc = "wait",
                                    !.was_failed = (details[t][i].status = R_FAILED),
                                    !.old_balance = details[t][i].balance]]
    /\ UNCHANGED <<up, accounts, tasks, cancelled_tasks, active, running_automations>>

\* lines 526-533: the counters after a successful single retry
RetriedTask(t, fl) ==
    [tasks[t] EXCEPT
        !.success_count = IF fl.was_failed THEN @ + 1 ELSE @,
        !.failed_count = IF fl.was_failed THEN Max(0, @ - 1) ELSE @,
        !.total_balance = @ - fl.old_balance + 1]

\* lines 516-550: the Executor returned r, or raised
RetryDone(f, r) ==
    LET fl == flow[f]
        t == fl.task_id
        i == fl.detail_id
    IN
    /\ up /\ active = 0
    /\ fl.kind = "retry" /\ fl.pc = "wait"
    /\ IF r = "ok"
       THEN /\ InRange(RetriedTask(t, fl).success_count)
            /\ InRange(RetriedTask(t, fl).total_balance)
            /\ details' = UpdateDetailStatus(details, t, i, R_SUCCESS, MsgOk, 1, ShotOk)
            /\ tasks' = [tasks EXCEPT ![t] = RetriedTask(t, fl)]
       ELSE /\ details' = UpdateDetailStatus(details, t, i, R_FAILED,
                            IF r = "fail" THEN MsgErr ELSE MsgRaised, NoBalance,
                            IF r = "fail" THEN ShotFail ELSE NULL)
            /\ UNCHANGED tasks
    /\ flow' = Cleanup(f)
    /\ UNCHANGED <<up, accounts, cancelled_tasks, active, running_automations>>

\* ------------------------------- AutomationManager.run_for_account

\* e-mail addresses and task codes, as strings of characters; either may hold
\* the character that joins them in a key
Emails == {<<"a">>, <<"a", "_", "b">>}
OrderCodes == {<<"c">>, <<"b", "_", "c">>}

\* line 458: key = f"{email}_{order_code}"
Key(email, order_code) == email \o <<"_">> \o order_code

\* the dict running_automations as the set of its <<key, value>> items, the value
\* being the DSJAutomation object of the invocation that made it
InDict(dict, key) == \E p \in dict : p[1] = key
DelKey(dict, key) == {p \in dict : p[1] # key}
SetKey(dict, key, value) == DelKey(dict, key) \cup {<<key, value>>}

\* the results of an invocation
ResRefused == "refused"
ExecOutcomes == {"ok", "fail", "exc"}

\* run_automation_for_account is awaited by run_task or retry_single_detail
ExecCall(email, order_code) ==
    /\ up
    /\ FreeSlots # {}
    /\ flow' = [Scheduled("exec", 0, 0) EXCEPT
                  ![CHOOSE x \in FreeSlots : \A y \in FreeSlots : x <= y] =
                      [@ EXCEPT !.pc = "called", !.email = email,
                                !.order_code = order_code]]
    /\ UNCHANGED <<up, accounts, tasks, details, cancelled_tasks, active,
                   running_automations>>

\* an invocation that is let in whatever the dict holds
Refused_Never(dict, key) == FALSE

\* line 461
Refused(dict, key) == InDict(dict, key)

\* lines 457-471: up to the await of automation.run, with no await on the way
ExecStart(f) ==
    LET key == Key(flow[f].email, flow[f].order_code) IN
    /\ up /\ active = 0
    /\ flow[f].kind = "exec" /\ flow[f].pc = "called"
    /\ IF Refused(running_automations, key)
       THEN /\ flow' = [flow EXCEPT ![f] = [@ EXCEPT !.pc = "returned",
                                                     !.result = ResRefused]]
            /\ UNCHANGED running_automations
       ELSE /\ flow' = [flow EXCEPT ![f].pc = "running"]
            /\ running_automations' = SetKey(running_automations, key, f)
    /\ UNCHANGED <<up, accounts, tasks, details, cancelled_tasks, active>>

\* lines 471-476: automation.run returns r or raises, and the finally block
\* takes the key out of the dict
ExecDone(f, r) ==
    LET key == Key(flow[f].email, flow[f].order_code) IN
    /\ up /\ active = 0
    /\ flow[f].kind = "exec" /\ flow[f].pc = "running"
    /\ flow' = [flow EXCEPT ![f] = [@ EXCEPT !.pc = "returned", !.result = r]]
    /\ running_automations' = DelKey(running_automations, key)
    /\ UNCHANGED <<up, accounts, tasks, details, cancelled_tasks, active>>

\* lines 496-510: the caller has the result
ExecReturn(f) ==
    /\ up
    /\ flow[f].kind = "exec" /\ flow[f].pc = "returned"
    /\ flow' = Cleanup(f)
    /\ UNCHANGED <<up, accounts, tasks, details, cancelled_tasks, active,
                   running_automations>>

\* ------------------------------------------------ stream_task_progress

\* the events event_generator yields
EvSnapshot == "snapshot"
EvCompleted == "completed"
EvError == "error"

\* lines 737-756 and 831: the handler answers with the generator, which starts
\* with last_success = last_failed = -1
StreamOpen(t) ==
    /\ up /\ active = 0
    /\ Exists(t)
    /\ FreeSlots # {}
    /\ flow' = [Scheduled("stream", t, 0) EXCEPT
                  ![CHOOSE x \in FreeSlots : \A y \in FreeSlots : x <= y] =
                      [@ EXCEPT !.pc = "poll", !.last_success = 0 - 1,
                                !.last_failed = 0 - 1]]
    /\ UNCHANGED <<up, accounts, tasks, details, cancelled_tasks, active,
                   running_automations>>

\* a generator that yields a snapshot at every turn
Changed_Always(fl, tk) == TRUE

\* lines 775-776
Changed(fl, tk) ==
    tk.success_count # fl.last_success \/ tk.failed_count # fl.last_failed

\* line 813
Terminal(tk) == tk.status \in {T_COMPLETED, T_FAILED}

\* what one turn of the loop yields for the task record tk it read
Yielded(fl, tk) ==
    (IF Changed(fl, tk) THEN <<EvSnapshot>> ELSE <<>>)
        \o (IF Terminal(tk) THEN <<EvCompleted>> ELSE <<>>)

\* lines 761-829: one turn of the loop of event_generator; `out` keeps what the
\* turn yielded, and the generator is "closed" once it has left the loop
StreamPoll(f) ==
    LET fl == flow[f]
        tk == tasks[fl.task_id]
    IN
    /\ up /\ active = 0
    /\ fl.kind = "stream" /\ fl.pc = "poll"
    /\ flow' = [flow EXCEPT ![f] =
          IF ~Exists(fl.task_id)
          THEN [fl EXCEPT !.pc = "closed", !.out = <<EvError>>]
          ELSE [fl EXCEPT
                  !.pc = IF Terminal(tk) THEN "closed" ELSE "poll",
                  !.last_success = IF Changed(fl, tk) THEN tk.success_count ELSE @,
                  !.last_failed = IF Changed(fl, tk) THEN tk.failed_count ELSE @,
                  !.out = Yielded(fl, tk)]]
    /\ UNCHANGED <<up, accounts, tasks, details, cancelled_tasks, active,
                   running_automations>>

\* the client goes away, or the response has ended: the generator is dropped
StreamClose(f) ==
    /\ up
    /\ flow[f].kind = "stream"
    /\ flow' = Cleanup(f)
    /\ UNCHANGED <<up, accounts, tasks, details, cancelled_tasks, active,
                   running_automations>>

\* ------------------------------------------------------ specification

\* the results the Executor hands back in the specifications below
ExecResults == {"ok", "fail"}
BatchResults(f) == [1..Len(flow[f].tasks_to_run) -> ExecResults]

\* every Executor invocation of the batch succeeds
AllOk(f) == [k \in 1..Len(flow[f].tasks_to_run) |-> "ok"]

\* one step of a background coroutine
FlowStep(f) ==
    \/ RunStart(f)
    \/ RunBatch(f)
    \/ \E res \in BatchResults(f) : RunGather(f, res)
    \/ RunCounts(f)
    \/ RunSleep(f)
    \/ RunRetryRound(f)
    \/ RunRetryBatch(f)
    \/ \E res \in BatchResults(f) : RunRetryGather(f, res)
    \/ RunRetryCounts(f)
    \/ RunFinal(f)
    \/ RunFinalCounts(f)
    \/ RetryStart(f)
    \/ \E r \in ExecResults : RetryDone(f, r)

\* a request that schedules a background coroutine
Request ==
    \/ \E t \in TaskIds, S \in SUBSET AccountCodes : CreateTask(t, S)
    \/ \E t \in TaskIds, i \in DetailIdx : RetryTaskDetail(t, i)
    \/ \E t \in TaskIds : RetryAllFailed(t)
    \/ \E t \in TaskIds : ResumeTask(t)

\* The client sends such a request only while fewer than SerialFlows background
\* coroutines are scheduled or running.
Serial == Cardinality(FlowIds \ FreeSlots) < SerialFlows

Next ==
    \/ Startup
    \/ Crash
    \/ \E a \in AccountCodes : DeleteAccount(a)
    \/ Serial /\ Request
    \/ \E t \in TaskIds : CancelTask(t)
    \/ \E f \in FlowIds : FlowStep(f)

Spec == Init /\ [][Next]_vars

\* Requests for a run and for its cancellation arrive at any time, also while
\* other coroutines are scheduled or running; the process stays up and every
\* Executor invocation succeeds.
NextRace ==
    \/ Startup
    \/ \E t \in TaskIds, S \in SUBSET AccountCodes : CreateTask(t, S)
    \/ \E t \in TaskIds : RetryAllFailed(t)
    \/ \E t \in TaskIds : ResumeTask(t)
    \/ \E t \in TaskIds : CancelTask(t)
    \/ \E f \in FlowIds : RunStart(f)
    \/ \E f \in FlowIds : RunBatch(f)
    \/ \E f \in FlowIds : RunGather(f, AllOk(f))
    \/ \E f \in FlowIds : RunCounts(f)
    \/ \E f \in FlowIds : RunSleep(f)
    \/ \E f \in FlowIds : RunRetryRound(f)
    \/ \E f \in FlowIds : RunRetryBatch(f)
    \/ \E f \in FlowIds : RunRetryGather(f, AllOk(f))
    \/ \E f \in FlowIds : RunRetryCounts(f)
    \/ \E f \in FlowIds : RunFinal(f)
    \/ \E f \in FlowIds : RunFinalCounts(f)

SpecRace == Init /\ [][NextRace]_vars

\* Scenario A: accounts are added to an empty store, a task is created, and its
\* run meets only successful Executor invocations, no cancel and no crash.
InitEmpty ==
    /\ up = FALSE
    /\ accounts = {}
    /\ tasks = [t \in TaskIds |-> NoTask]
    /\ details = [t \in TaskIds |-> <<>>]
    /\ cancelled_tasks = {}
    /\ flow = [f \in FlowIds |-> NoFlow]
    /\ active = 0
    /\ running_automations = {}

NextA ==
    \/ Startup
    \/ \E a \in AccountCodes : CreateAccount(a)
    \/ \E t \in TaskIds, S \in SUBSET AccountCodes : CreateTask(t, S)
    \/ \E f \in FlowIds : RunStart(f)
    \/ \E f \in FlowIds : RunBatch(f)
    \/ \E f \in FlowIds : RunGather(f, AllOk(f))
    \/ \E f \in FlowIds : RunCounts(f)
    \/ \E f \in FlowIds : RunSleep(f)
    \/ \E f \in FlowIds : RunRetryRound(f)
    \/ \E f \in FlowIds : RunFinal(f)
    \/ \E f \in FlowIds : RunFinalCounts(f)

SpecA == InitEmpty /\ [][NextA]_vars

\* A store in which the creation of a task was cut short: the task record states
\* total_accounts, and rows exist for fewer accounts than that.
StoredTasks ==
    {NoTask} \cup
    {[status |-> st, total_accounts |-> n, success_count |-> 0,
      failed_count |-> 0, total_balance |-> 0] :
        st \in {T_PENDING, T_RUNNING}, n \in 1..NumAccounts}

StoredRows == {[k \in 1..Cardinality(S) |-> NewDetail(SetToSeq(S)[k])] :
                  S \in SUBSET AccountCodes}

InitIncomplete ==
    /\ up = FALSE
    /\ accounts \in SUBSET AccountCodes
    /\ tasks \in [TaskIds -> StoredTasks]
    /\ details \in [TaskIds -> StoredRows]
    /\ \A t \in TaskIds : Len(details[t]) <= tasks[t].total_accounts
    /\ cancelled_tasks = {}
    /\ flow = [f \in FlowIds |-> NoFlow]
    /\ active = 0
    /\ running_automations = {}

NextRepair ==
    \/ Startup
    \/ \E a \in AccountCodes : CreateAccount(a)
    \/ \E a \in AccountCodes : DeleteAccount(a)
    \/ \E t \in TaskIds, S \in SUBSET AccountCodes : RepairTask(t, S)

SpecRepair == InitIncomplete /\ [][NextRepair]_vars

\* a started coroutine whose task is still in the store
Live(f) ==
    /\ flow[f].kind # "none"
    /\ flow[f].pc = "scheduled" \/ Exists(flow[f].task_id)

\* A coroutine whose task was deleted under it: its next statement on a row of
\* the task raises (the row is gone), the handlers of run_task find no task to
\* mark, and the finally block runs.  Nothing is written.
RunLost(f) ==
    /\ up
    /\ flow[f].kind # "none" /\ flow[f].pc # "scheduled"
    /\ ~Exists(flow[f].task_id)
    /\ active = IF flow[f].pc \in {"gather", "sleep", "rgather", "rsleep", "wait"}
                THEN 0 ELSE f
    /\ flow' = Cleanup(f)
    /\ cancelled_tasks' = IF flow[f].kind = "run" THEN CleanedFlags(flow[f].task_id)
                          ELSE cancelled_tasks
    /\ active' = 0
    /\ UNCHANGED <<up, accounts, tasks, details, running_automations>>

\* a new task gets an id that no coroutine and no cancel flag refers to
FreshId(t) == t \notin cancelled_tasks /\ \A f \in FlowIds : flow[f].task_id # t

\* The store may hold an incomplete task from the start; tasks are repaired
\* and deleted, also by force while their run is in flight; nothing crashes.
InitAdmin ==
    /\ up = FALSE
    /\ accounts = AccountCodes
    /\ tasks \in [TaskIds -> StoredTasks]
    /\ details \in [TaskIds -> StoredRows]
    /\ \A t \in TaskIds : Len(details[t]) <= tasks[t].total_accounts
    /\ cancelled_tasks = {}
    /\ flow = [f \in FlowIds |-> NoFlow]
    /\ active = 0
    /\ running_automations = {}

NextAdmin ==
    \/ Startup
    \/ \E t \in TaskIds, S \in SUBSET AccountCodes :
          Serial /\ FreshId(t) /\ CreateTask(t, S)
    \/ \E t \in TaskIds, i \in DetailIdx : Serial /\ RetryTaskDetail(t, i)
    \/ \E t \in TaskIds : Serial /\ RetryAllFailed(t)
    \/ \E t \in TaskIds : Serial /\ ResumeTask(t)
    \/ \E t \in TaskIds : CancelTask(t)
    \/ \E t \in TaskIds, S \in SUBSET AccountCodes : RepairTask(t, S)
    \/ \E t \in TaskIds : DeleteTask(t)
    \/ \E t \in TaskIds : ForceDeleteTask(t)
    \/ \E f \in FlowIds : Live(f) /\ FlowStep(f)
    \/ \E f \in FlowIds : RunLost(f)

SpecAdmin == InitAdmin /\ [][NextAdmin]_vars

\* the coroutines that work on tasks, as against the streams that watch them
Workers == {f \in FlowIds : flow[f].kind \in {"run", "retry"}}

\* A client watches a task through stream_task_progress while the task is run,
\* cancelled, resumed, retried and deleted; a request that schedules a coroutine
\* is sent only while no such coroutine is scheduled or running.
NextFeed ==
    \/ Startup
    \/ \E t \in TaskIds, S \in SUBSET AccountCodes :
          Workers = {} /\ FreshId(t) /\ CreateTask(t, S)
    \/ \E t \in TaskIds : Workers = {} /\ RetryAllFailed(t)
    \/ \E t \in TaskIds : Workers = {} /\ ResumeTask(t)
    \/ \E t \in TaskIds : CancelTask(t)
    \/ \E t \in TaskIds : DeleteTask(t)
    \/ \E f \in Workers : Live(f) /\ FlowStep(f)
    \/ \E f \in Workers : RunLost(f)
    \/ \E t \in TaskIds : StreamOpen(t)
    \/ \E f \in FlowIds : StreamPoll(f)
    \/ \E f \in FlowIds : StreamClose(f)

SpecFeed == Init /\ [][NextFeed]_vars

\* Scenario B: a task is created and run, an Executor invocation succeeds,
\* returns a failure or raises, and accounts are removed while the run goes on.
NextB ==
    \/ Startup
    \/ \E a \in AccountCodes : DeleteAccount(a)
    \/ \E t \in TaskIds, S \in SUBSET AccountCodes : CreateTask(t, S)
    \/ \E f \in FlowIds : RunStart(f)
    \/ \E f \in FlowIds : RunBatch(f)
    \/ \E f \in FlowIds : \E res \in Results(flow[f]) : RunGather(f, res)
    \/ \E f \in FlowIds : RunCounts(f)
    \/ \E f \in FlowIds : RunSleep(f)
    \/ \E f \in FlowIds : RunRetryRound(f)
    \/ \E f \in FlowIds : RunRetryBatch(f)
    \/ \E f \in FlowIds : \E res \in Results(flow[f]) : RunRetryGather(f, res)
    \/ \E f \in FlowIds : RunRetryCounts(f)
    \/ \E f \in FlowIds : RunFinal(f)
    \/ \E f \in FlowIds : RunFinalCounts(f)

SpecB == Init /\ [][NextB]_vars

\* Single-detail retry requests arrive at any time, also for a detail whose
\* retry is already scheduled or running, and while a run is scheduled.
NextRetry ==
    \/ Startup
    \/ \E t \in TaskIds, S \in SUBSET AccountCodes : CreateTask(t, S)
    \/ \E t \in TaskIds, i \in DetailIdx : RetryTaskDetail(t, i)
    \/ \E f \in FlowIds : FlowStep(f)

SpecRetry == Init /\ [][NextRetry]_vars

\* one step of a run_task coroutine; an Executor invocation succeeds, returns a
\* failure or raises
RunStep(f) ==
    \/ RunStart(f)
    \/ RunBatch(f)
    \/ \E res \in Results(flow[f]) : RunGather(f, res)
    \/ RunCounts(f)
    \/ RunSleep(f)
    \/ RunRetryRound(f)
    \/ RunRetryBatch(f)
    \/ \E res \in Results(flow[f]) : RunRetryGather(f, res)
    \/ RunRetryCounts(f)
    \/ RunFinal(f)
    \/ RunFinalCounts(f)

\* The process stays up; a task is created, cancelled, resumed and retried as a
\* whole, a run being requested only while none is scheduled or running.
NextLive ==
    \/ Startup
    \/ \E t \in TaskIds, S \in SUBSET AccountCodes : Serial /\ CreateTask(t, S)
    \/ \E t \in TaskIds : Serial /\ RetryAllFailed(t)
    \/ \E t \in TaskIds : Serial /\ ResumeTask(t)
    \/ \E t \in TaskIds : CancelTask(t)
    \/ \E f \in FlowIds : RunStep(f)

\* The event loop resumes a coroutine that is ready to run, a sleep ends, and
\* every Executor invocation returns or raises: a coroutine that can take a step
\* takes it in the end.
Progress == \A f \in FlowIds : WF_vars(RunStep(f))

SpecLive == Init /\ [][NextLive]_vars /\ Progress

\* A task is created and run to its end, and then single items of it are
\* retried by hand, one request at a time: nothing crashes, nothing is cancelled
\* and no account is removed, so a task at rest has no PENDING item and every
\* single-item retry is one of an item that is FAILED.
NextSingle ==
    \/ Startup
    \/ \E t \in TaskIds, S \in SUBSET AccountCodes : Serial /\ CreateTask(t, S)
    \/ \E t \in TaskIds, i \in DetailIdx : Serial /\ RetryTaskDetail(t, i)
    \/ \E f \in FlowIds : FlowStep(f)

SpecSingle == Init /\ [][NextSingle]_vars

\* A cancel request is handled in two steps of a worker thread, between which
\* the run it is aimed at goes on; the process stays up, and a run is requested
\* only while no run is scheduled or running.
NextCancel ==
    \/ Startup
    \/ \E t \in TaskIds, S \in SUBSET AccountCodes : Workers = {} /\ CreateTask(t, S)
    \/ \E t \in TaskIds : Workers = {} /\ RetryAllFailed(t)
    \/ \E t \in TaskIds : Workers = {} /\ ResumeTask(t)
    \/ \E t \in TaskIds : CancelCheck(t)
    \/ \E f \in FlowIds : CancelInsert(f)
    \/ \E f \in FlowIds : RunStep(f)

SpecCancel == Init /\ [][NextCancel]_vars

\* The Executor on its own: invocations for any e-mail address and task code
\* are started at any time, also while others are in flight.
NextExec ==
    \/ Startup
    \/ \E e \in Emails, c \in OrderCodes : ExecCall(e, c)
    \/ \E f \in FlowIds : ExecStart(f)
    \/ \E f \in FlowIds, r \in ExecOutcomes : ExecDone(f, r)
    \/ \E f \in FlowIds : ExecReturn(f)

SpecExec == Init /\ [][NextExec]_vars


\* ------------------------------------------------------------- claims

Items(t) == Idx(details, t)
Status(t, i) == details[t][i].status
RunFlows == {f \in FlowIds : flow[f].kind = "run"}

\* the step taken by startup_event
SweepStep == ~up /\ up'

\* C1: in every reachable state of the store, every task has
\* success_count + failed_count <= total_accounts.
C1_CountsWithinTotal ==
    \A t \in TaskIds :
        Exists(t) =>
            tasks[t].success_count + tasks[t].failed_count <= tasks[t].total_accounts

\* C2: the recovery sweep leaves no task detail in RUNNING state, whatever the
\* stored status of its task was.
C2_NoRunningAfterSweep ==
    [][SweepStep => \A t \in TaskIds : \A i \in Idx(details', t) :
                        details'[t][i].status # R_RUNNING]_vars

\* C3: the recovery sweep turns every task stored as RUNNING into FAILED and
\* every RUNNING detail of such a task into FAILED with the restart message,
\* raises that task's failed_count by the number of details it converted, and
\* leaves no task RUNNING, so that resume_task accepts the task afterwards.
C3_SweepFailsRunning ==
    [][SweepStep =>
        \A t \in TaskIds :
            /\ Exists(t) => ResumeAccepted(t)'
            /\ (Exists(t) /\ tasks[t].status = T_RUNNING) =>
                  /\ tasks'[t].status = T_FAILED
                  /\ \A i \in Items(t) :
                        Status(t, i) = R_RUNNING =>
                            /\ details'[t][i].status = R_FAILED
                            /\ details'[t][i].result_message = MsgCrash
                  /\ tasks'[t].failed_count =
                        tasks[t].failed_count
                          + Cardinality({i \in Items(t) : Status(t, i) = R_RUNNING})]_vars

\* the sweep has converted two RUNNING details of an interrupted task
C3_Witness ==
    /\ up
    /\ \E t \in TaskIds :
          /\ tasks[t].status = T_FAILED
          /\ tasks[t].failed_count >= 2
          /\ Cardinality(CrashFailed(t)) = 2
          /\ \A f \in FlowIds : flow[f].kind = "none"

\* C4: the recovery sweep changes nothing else: details that are PENDING,
\* SUCCESS or FAILED keep every column, a converted detail keeps its outcome and
\* artifact, and a task that is not RUNNING keeps its row and its details.
C4_SweepFrame ==
    [][SweepStep =>
        /\ accounts' = accounts
        /\ \A t \in TaskIds :
              /\ Len(details'[t]) = Len(details[t])
              /\ tasks'[t].total_accounts = tasks[t].total_accounts
              /\ tasks'[t].success_count = tasks[t].success_count
              /\ tasks'[t].total_balance = tasks[t].total_balance
              /\ tasks[t].status # T_RUNNING =>
                    tasks'[t] = tasks[t] /\ details'[t] = details[t]
              /\ \A i \in Items(t) :
                    /\ Status(t, i) # R_RUNNING => details'[t][i] = details[t][i]
                    /\ details'[t][i].balance = details[t][i].balance
                    /\ details'[t][i].screenshot_path = details[t][i].screenshot_path
                    /\ details'[t][i].account_code = details[t][i].account_code]_vars

\* after the sweep a converted detail stands beside one left PENDING and one
\* left SUCCESS with its outcome
C4_Witness ==
    /\ up
    /\ \A f \in FlowIds : flow[f].kind = "none"
    /\ \E t \in TaskIds :
          /\ CrashFailed(t) # {}
          /\ \E j \in Items(t) : Status(t, j) = R_PENDING
          /\ \E j \in Items(t) : Status(t, j) = R_SUCCESS /\ details[t][j].balance = 1

\* C5 as stated: the run that resume_task starts after a recovery hands to the
\* Executor only details that were still PENDING after the recovery, and none
\* of the details the recovery had marked FAILED.
C5_ResumeSkipsCrashFailed ==
    \A f \in RunFlows :
        \A k \in 1..Len(flow[f].log) :
            SeqToSet(flow[f].log[k]) \cap flow[f].crash_failed = {}

\* C5 as amended: resume_task sets every FAILED detail of the task, those the
\* recovery marked FAILED included, back to PENDING beside the details still
\* PENDING; the run it starts queues every detail that is PENDING when it starts
\* and hands each batch of that queue to the Executor, but for details whose
\* account is gone.
C5_ResumeRequeuesFailed ==
    [][/\ \A t \in TaskIds :
            ResumeTask(t) =>
                /\ \A i \in Items(t) :
                      Status(t, i) \in {R_PENDING, R_FAILED} =>
                          details'[t][i].status = R_PENDING
                /\ \E f \in FlowIds :
                      /\ flow[f].kind = "none"
                      /\ flow'[f].kind = "run" /\ flow'[f].task_id = t
       /\ \A f \in RunFlows :
            LET t == flow[f].task_id
                queue == flow'[f].pending_details
                sent == flow'[f].batch_details
            IN /\ (flow[f].pc = "scheduled" /\ flow'[f].pc = "batch") =>
                     /\ SeqToSet(queue) = {i \in Items(t) : Status(t, i) = R_PENDING}
                     /\ \A j, k \in 1..Len(queue) : j < k => queue[j] < queue[k]
               /\ (flow[f].pc = "batch" /\ flow'[f].pc = "gather") =>
                     /\ sent = Slice(queue, flow[f].batch_start, flow[f].batch_start + 2)
                     /\ \A k \in 1..Len(sent) :
                           details[t][sent[k]].account_code \in accounts =>
                               /\ details'[t][sent[k]].status = R_RUNNING
                               /\ sent[k] \in SeqToSet(flow'[f].tasks_to_run)]_vars

\* Scenario E: two details were RUNNING and one PENDING at the crash; the run
\* started by resume_task has queued all three and has the two that the
\* recovery had failed in flight
C5_Witness ==
    \E f \in RunFlows :
        /\ flow[f].pc = "gather"
        /\ flow[f].pending_details = <<1, 2, 3>>
        /\ flow[f].crash_failed = {1, 2}
        /\ flow[f].tasks_to_run = <<1, 2>>
        /\ Status(flow[f].task_id, 1) = R_RUNNING
        /\ Status(flow[f].task_id, 2) = R_RUNNING

\* the k-th of the consecutive batches of two of the queue 1..n
BatchOfTwo(n, k) == [j \in 1..(IF 2 * k <= n THEN 2 ELSE 1) |-> 2 * (k - 1) + j]

\* C6: a task created with N PENDING details whose accounts all exist, run with
\* every Executor invocation succeeding and no cancel, is dispatched in
\* consecutive batches of 2 in queue order and ends with every detail SUCCESS,
\* success_count = N, failed_count = 0 and status COMPLETED.
C6_AllSucceed ==
    \A t \in TaskIds :
        Exists(t) =>
            LET n == tasks[t].total_accounts IN
            /\ \A f \in RunFlows :
                  flow[f].task_id = t =>
                      /\ \A k \in 1..Len(flow[f].log) :
                            flow[f].log[k] = BatchOfTwo(n, k)
                      /\ flow[f].pc \in {"retry", "final", "final_counts"} =>
                            Len(flow[f].log) = (n + 1) \div 2
            /\ (\A f \in FlowIds : flow[f].task_id # t) =>
                  /\ tasks[t].status = T_COMPLETED
                  /\ tasks[t].success_count = n
                  /\ tasks[t].failed_count = 0
                  /\ Len(details[t]) = n
                  /\ \A i \in Items(t) : Status(t, i) = R_SUCCESS

\* Scenario A with N = 3: the run was dispatched as {1,2} then {3} and is about
\* to return with all three details SUCCESS and the task COMPLETED
C6_Witness ==
    \E f \in RunFlows :
        /\ flow[f].pc = "final_counts"
        /\ flow[f].log = <<(<<1, 2>>), (<<3>>)>>
        /\ flow[f].success_count = 3
        /\ tasks[flow[f].task_id].status = T_COMPLETED
        /\ \A i \in 1..3 : Status(flow[f].task_id, i) = R_SUCCESS

\* C7: within one run no batch is set RUNNING and handed to the Executor until
\* every detail of the batch dispatched before it has had its result applied
\* and is SUCCESS or FAILED, in the initial pass and in the retry rounds.
C7_JoinBarrier ==
    [][\A f \in RunFlows :
          (flow'[f].kind = "run" /\ Len(flow'[f].log) > Len(flow[f].log)
             /\ Len(flow[f].log) > 0) =>
              /\ flow[f].pc \notin {"gather", "rgather"}
              /\ \A i \in SeqToSet(flow[f].log[Len(flow[f].log)]) :
                    Status(flow[f].task_id, i) \in {R_SUCCESS, R_FAILED}]_vars

\* C8: at most one execution of run_task is in flight for a task at any time,
\* whatever the interleaving of create, resume, retry-all and cancel requests
\* with the background start of the runs.
C8_SingleRun == \A t \in TaskIds : Cardinality(RunsInFlight(t)) <= 1

\* the number of batches of one run in which detail i was handed to the Executor
Attempts(f, i) ==
    Cardinality({k \in 1..Len(flow[f].log) : i \in SeqToSet(flow[f].log[k])})

\* the entries of the current retry round that are still to be dispatched
Undispatched(f) ==
    {flow[f].details_to_retry[k] :
        k \in (flow[f].batch_start + 1)..Len(flow[f].details_to_retry)}

\* C9: in one run no retry counter exceeds 2, a detail whose counter is 2 is
\* not among those a retry round is about to dispatch, and no detail is handed
\* to the Executor more than 3 times.
C9_RetryBound ==
    \A f \in RunFlows :
        /\ \A i \in Items(flow[f].task_id) :
              /\ flow[f].retry_counts[i] <= 2
              /\ Attempts(f, i) <= 3
        /\ flow[f].pc = "rbatch" =>
              \A i \in Undispatched(f) : flow[f].retry_counts[i] < 2

C9_Witness ==
    \E f \in RunFlows :
        /\ flow[f].pc = "final"
        /\ \E i \in Items(flow[f].task_id) :
              /\ flow[f].retry_counts[i] = 2
              /\ Attempts(f, i) = 3
              /\ Status(flow[f].task_id, i) = R_FAILED

\* the step of run f that stores the final status, taken by a run that saw no
\* cancel request and leaves at least one detail FAILED
FinalWithFailures(f) ==
    /\ flow[f].kind = "run" /\ flow[f].pc = "final"
    /\ flow'[f].pc = "final_counts"
    /\ ~flow[f].cancel_seen
    /\ WithStatus(details, flow[f].task_id, {R_FAILED}) # {}

\* C10 as stated: a run that finishes without cancellation and leaves a detail
\* FAILED stores the task as FAILED.
C10_FinalFailed ==
    [][\A f \in FlowIds :
          FinalWithFailures(f) => tasks'[flow[f].task_id].status = T_FAILED]_vars

\* C10, amended: a run that finishes without cancellation stores the task as
\* COMPLETED even when it leaves details FAILED after the retry rounds.
C10_FinalCompletedDespiteFailures ==
    [][\A f \in FlowIds :
          FinalWithFailures(f) => tasks'[flow[f].task_id].status = T_COMPLETED]_vars

C10_Witness ==
    \E f \in RunFlows :
        /\ flow[f].pc = "final_counts"
        /\ ~flow[f].cancel_seen
        /\ tasks[flow[f].task_id].status = T_COMPLETED
        /\ \E i \in Items(flow[f].task_id) :
              /\ Status(flow[f].task_id, i) = R_FAILED
              /\ flow[f].retry_counts[i] = 2

\* the step of run f that stores the final status, taken by a run during which
\* no cancel request was accepted
FinalUncancelled(f) ==
    /\ flow[f].kind = "run" /\ flow[f].pc = "final"
    /\ flow'[f].pc = "final_counts"
    /\ ~flow[f].cancel_seen

\* C11: a run during which no cancel request was accepted stores the task as
\* COMPLETED at its final step, whether every detail succeeded or some are
\* still FAILED after the retry rounds.
C11_UncancelledCompletes ==
    [][\A f \in FlowIds :
          FinalUncancelled(f) =>
              /\ flow[f].task_id \notin cancelled_tasks
              /\ tasks'[flow[f].task_id].status = T_COMPLETED]_vars

C11_Witness ==
    \E f \in RunFlows :
        LET t == flow[f].task_id IN
        /\ flow[f].pc = "final_counts"
        /\ ~flow[f].cancel_seen
        /\ tasks[t].status = T_COMPLETED
        /\ \E i, j \in Items(t) :
              /\ Status(t, i) = R_SUCCESS
              /\ Status(t, j) = R_FAILED
              /\ Attempts(f, j) = 3

\* run f, during which a cancel request was accepted, takes a turn of the loop
\* of the initial pass with part of its queue still to be dispatched
CancelledBoundary(f) ==
    /\ flow[f].kind = "run" /\ flow[f].pc = "batch"
    /\ flow[f].cancel_seen
    /\ flow[f].batch_start < Len(flow[f].pending_details)
    /\ flow'[f].kind = "run" /\ flow'[f] # flow[f]

\* run f hands detail i to the Executor in this step
Dispatches(f, i) ==
    /\ flow'[f].kind = "run"
    /\ Len(flow'[f].log) > Len(flow[f].log)
    /\ i \in SeqToSet(flow'[f].log[Len(flow'[f].log)])

\* C12: at the batch boundary that follows an accepted cancel, every detail of
\* the task that is still PENDING becomes FAILED with the cancelled message, the
\* run's failed_count grows by the number of those details, and the run never
\* sets one of them RUNNING or hands it to the Executor.
C12_ForceFail ==
    [][\A f \in FlowIds :
          LET t == flow[f].task_id
              pending == {i \in Items(t) : Status(t, i) = R_PENDING}
          IN /\ CancelledBoundary(f) =>
                   /\ \A i \in pending :
                         /\ details'[t][i].status = R_FAILED
                         /\ details'[t][i].result_message = MsgCancelled
                   /\ flow'[f].failed_count = flow[f].failed_count + Cardinality(pending)
                   /\ flow'[f].log = flow[f].log
             /\ (flow[f].kind = "run" /\ flow[f].cancel_seen) =>
                   \A i \in Items(t) :
                       (Status(t, i) = R_FAILED
                          /\ details[t][i].result_message = MsgCancelled) =>
                             ~Dispatches(f, i)]_vars

\* the status a detail takes from the result of its own Executor invocation
Outcome(r) == IF r = "ok" THEN R_SUCCESS ELSE R_FAILED

\* the batch of the initial pass that run f has in flight settles with the
\* results res, and every dispatched detail takes the status of its own result
SettlesByOutcome(f, res) ==
    /\ RunGather(f, res)
    /\ \A k \in 1..Len(flow[f].tasks_to_run) :
          details'[flow[f].task_id][flow[f].tasks_to_run[k]].status = Outcome(res[k])

\* C13: a detail that is RUNNING in the batch in flight when a cancel request
\* is accepted is not failed by the cancellation: when the batch settles it is
\* SUCCESS if its Executor invocation succeeded and FAILED if it failed.
C13_InFlightResolve ==
    [][\A f \in FlowIds :
          (/\ flow[f].kind = "run" /\ flow[f].pc = "gather"
           /\ flow[f].cancel_seen
           /\ flow'[f].kind = "run" /\ flow'[f].pc = "counts") =>
              \E res \in BatchResults(f) : SettlesByOutcome(f, res)]_vars

\* C14: a run during which a cancel request for its task was accepted stores
\* the task as FAILED at its final step, never COMPLETED, whatever requests are
\* interleaved between the cancel request and the end of the run.
C14_CancelledRunFails ==
    [][\A f \in FlowIds :
          (/\ flow[f].kind = "run" /\ flow[f].pc = "final"
           /\ flow[f].cancel_seen
           /\ flow'[f].kind = "run" /\ flow'[f].pc = "final_counts") =>
              tasks'[flow[f].task_id].status = T_FAILED]_vars

\* C15: once a cancel request for its task has been accepted, a run hands no
\* further batch to the Executor, neither in the initial pass nor in a retry
\* round.
C15_NoDispatchAfterCancel ==
    [][\A f \in FlowIds :
          (flow[f].kind = "run" /\ flow[f].cancel_seen /\ flow'[f].kind = "run") =>
              /\ flow'[f].log = flow[f].log
              /\ flow'[f].pc \in {"gather", "rgather"} => flow'[f].pc = flow[f].pc]_vars

\* C16: cancel_task flips a task stored as RUNNING to FAILED, and reports
\* success, only when no run of the task is in flight; while a run of the task
\* is in flight the stored status is left for that run to finalize.
C16_FallbackOnlyWithoutRun ==
    [][\A t \in TaskIds :
          CancelTask(t) =>
              IF RunsInFlight(t) # {}
              THEN tasks'[t].status = tasks[t].status
              ELSE /\ CancelReturn(t) = (tasks[t].status = T_RUNNING)
                   /\ tasks'[t].status =
                        IF tasks[t].status = T_RUNNING THEN T_FAILED
                        ELSE tasks[t].status]_vars

\* C17: a single-detail retry request on a FAILED detail of a task that is not
\* RUNNING leaves the detail PENDING with no message, balance or screenshot,
\* and the task's failed_count exactly 1 lower than before.
C17_RetryResets ==
    [][\A t \in TaskIds, i \in DetailIdx :
          (RetryTaskDetail(t, i) /\ Status(t, i) = R_FAILED) =>
              /\ details'[t][i].status = R_PENDING
              /\ details'[t][i].result_message = NULL
              /\ details'[t][i].balance = NoBalance
              /\ details'[t][i].screenshot_path = NULL
              /\ tasks'[t].failed_count = tasks[t].failed_count - 1]_vars

\* C18: repair_incomplete_task appends only PENDING rows, for accounts of the
\* store the task had no row for, never takes the task beyond total_accounts
\* rows, changes nothing else, and leaves a store in which a second call adds
\* 0 rows.
C18_RepairBounded ==
    [][\A t \in TaskIds, S \in SUBSET AccountCodes :
          RepairTask(t, S) =>
              /\ Len(details'[t]) <= Max(Len(details[t]), tasks[t].total_accounts)
              /\ SubSeq(details'[t], 1, Len(details[t])) = details[t]
              /\ \A k \in (Len(details[t]) + 1)..Len(details'[t]) :
                    /\ details'[t][k].status = R_PENDING
                    /\ details'[t][k].account_code \in accounts
                    /\ details'[t][k].account_code \notin ExistingCodes(details, t)
                    /\ \A j \in 1..(k - 1) :
                          details'[t][j].account_code # details'[t][k].account_code
              /\ \A u \in TaskIds \ {t} : details'[u] = details[u]
              /\ UNCHANGED <<tasks, accounts, cancelled_tasks>>
              /\ AddedCount(tasks', details', accounts', t) = 0]_vars

\* a repair has filled an incomplete task up to its total_accounts
C18_Witness ==
    \E t \in TaskIds :
        /\ up /\ Exists(t)
        /\ Len(details[t]) = tasks[t].total_accounts
        /\ Len(details[t]) >= 2
        /\ MissingAccounts(details, accounts, t) # {}
        /\ \E k \in 2..Len(details[t]) :
              details[t][k].account_code < details[t][k - 1].account_code

\* task t is in the store and not stored as RUNNING
Idle(t) == Exists(t) /\ tasks[t].status # T_RUNNING

\* C19: a request the handlers reject changes nothing, so a handler changes
\* the store or the cancel flags only where it is not rejected: create_task only
\* for a task code not in the store; cancel_task only for a task stored as
\* RUNNING; resume, retry-all, single retry, repair and delete only for a task
\* in the store that is not RUNNING; force-delete only for a task in the store;
\* a single retry only for a detail of the task that is FAILED or PENDING.
C19_RejectedUnchanged ==
    [][\A t \in TaskIds :
          /\ \A S \in SUBSET AccountCodes :
                /\ CreateTask(t, S) => ~Exists(t)
                /\ RepairTask(t, S) => Idle(t)
          /\ CancelTask(t) => Exists(t) /\ tasks[t].status = T_RUNNING
          /\ ResumeTask(t) => Idle(t)
          /\ RetryAllFailed(t) => Idle(t)
          /\ DeleteTask(t) => Idle(t)
          /\ ForceDeleteTask(t) => Exists(t)
          /\ \A i \in DetailIdx :
                RetryTaskDetail(t, i) =>
                    /\ Idle(t)
                    /\ i \in Items(t)
                    /\ Status(t, i) \in {R_FAILED, R_PENDING}]_vars

\* a state in which the handlers reject: a task stored as RUNNING whose run has
\* a batch with the Executor, one detail SUCCESS and one RUNNING
C19_Witness ==
    \E t \in TaskIds :
        /\ up /\ Exists(t) /\ tasks[t].status = T_RUNNING
        /\ \E i, j \in Items(t) : Status(t, i) = R_SUCCESS /\ Status(t, j) = R_RUNNING
        /\ \E f \in RunFlows : flow[f].task_id = t /\ flow[f].pc = "gather"

\* C20: delete_task and force_delete_task leave no detail of the task in the
\* store, and no detail of a task that is not in the store appears later, also
\* when a run of the deleted task is still in flight.
C20_NoOrphanRows ==
    [][\A t \in TaskIds :
          /\ (DeleteTask(t) \/ ForceDeleteTask(t)) =>
                ~Exists(t)' /\ details'[t] = <<>>
          /\ (~Exists(t) /\ details[t] = <<>> /\ ~Exists(t)') => details'[t] = <<>>]_vars

\* a run of a deleted task is in flight, its batch with the Executor
C20_Witness ==
    \E f \in RunFlows :
        /\ flow[f].pc = "gather"
        /\ flow[f].tasks_to_run # <<>>
        /\ ~Exists(flow[f].task_id)
        /\ details[flow[f].task_id] = <<>>

\* a turn of the loop of stream f
Polls(f) == flow[f].kind = "stream" /\ flow[f].pc = "poll" /\ StreamPoll(f)

\* C21: a turn of the progress stream yields a snapshot exactly when the task's
\* success_count or failed_count differs from the values of the last snapshot
\* it yielded, the first turn always does, a turn yields the terminal marker
\* exactly when it reads the task as COMPLETED or FAILED, the marker is the last
\* thing the stream yields, and a closed stream yields nothing more.
C21_FeedOnChange ==
    [][\A f \in FlowIds :
          LET t == flow[f].task_id
              emitted == SeqToSet(flow'[f].out)
          IN /\ (Polls(f) /\ Exists(t)) =>
                   /\ EvSnapshot \in emitted <=>
                         (tasks[t].success_count # flow[f].last_success
                            \/ tasks[t].failed_count # flow[f].last_failed)
                   /\ flow[f].last_success = 0 - 1 => EvSnapshot \in emitted
                   /\ EvSnapshot \in emitted =>
                         /\ flow'[f].last_success = tasks[t].success_count
                         /\ flow'[f].last_failed = tasks[t].failed_count
                   /\ EvSnapshot \notin emitted =>
                         /\ flow'[f].last_success = flow[f].last_success
                         /\ flow'[f].last_failed = flow[f].last_failed
                   /\ EvCompleted \in emitted <=>
                         tasks[t].status \in {T_COMPLETED, T_FAILED}
                   /\ EvCompleted \in emitted =>
                         /\ flow'[f].out[Len(flow'[f].out)] = EvCompleted
                         /\ Cardinality({k \in 1..Len(flow'[f].out) :
                                           flow'[f].out[k] = EvCompleted}) = 1
                         /\ flow'[f].pc = "closed"
             /\ (flow[f].kind = "stream" /\ flow[f].pc = "closed") =>
                   flow'[f] = flow[f] \/ flow'[f].kind = "none"]_vars

\* a stream that has yielded a snapshot before reads the task as finished with
\* the counts of that snapshot, and has yielded the terminal marker alone
C21_Witness ==
    \E f \in FlowIds :
        /\ flow[f].kind = "stream" /\ flow[f].pc = "closed"
        /\ flow[f].out = <<EvCompleted>>
        /\ flow[f].last_success + flow[f].last_failed >= 2

\* C22: resume_task on a task that is not RUNNING sets every FAILED detail
\* back to PENDING with message, balance and screenshot cleared, lowers
\* failed_count by the number of those details, leaves PENDING details PENDING
\* and every other detail as it was, reports the number of PENDING plus FAILED
\* details, and schedules one run of the task; with no PENDING or FAILED detail
\* it changes nothing and schedules no run.
C22_ResumeRequeues ==
    [][\A t \in TaskIds :
          LET failed == {i \in Items(t) : Status(t, i) = R_FAILED}
              pending == {i \in Items(t) : Status(t, i) = R_PENDING}
          IN ResumeTask(t) =>
                /\ tasks[t].status # T_RUNNING
                /\ failed \cup pending # {}
                /\ ResumeCount(t) = Cardinality(failed) + Cardinality(pending)
                /\ Len(details'[t]) = Len(details[t])
                /\ \A i \in failed :
                      details'[t][i] = [details[t][i] EXCEPT
                                          !.status = R_PENDING,
                                          !.result_message = NULL,
                                          !.balance = NoBalance,
                                          !.screenshot_path = NULL]
                /\ \A i \in Items(t) \ failed : details'[t][i] = details[t][i]
                /\ tasks'[t] = [tasks[t] EXCEPT
                                  !.failed_count = @ - Cardinality(failed)]
                /\ Cardinality({f \in FlowIds : flow'[f] # flow[f]}) = 1
                /\ \E f \in FlowIds :
                      /\ flow[f].kind = "none"
                      /\ flow'[f].kind = "run" /\ flow'[f].pc = "scheduled"
                      /\ flow'[f].task_id = t]_vars

\* resume_task has re-queued a task after a recovery: the run is scheduled, the
\* details the recovery had failed are PENDING again with no message beside a
\* SUCCESS detail that kept its balance, and failed_count is back at 0
C22_Witness ==
    \E f \in RunFlows :
        LET t == flow[f].task_id IN
        /\ flow[f].pc = "scheduled"
        /\ Cardinality(flow[f].crash_failed) = 2
        /\ \A i \in flow[f].crash_failed :
              Status(t, i) = R_PENDING /\ details[t][i].result_message = NULL
        /\ \E j \in Items(t) : Status(t, j) = R_SUCCESS /\ details[t][j].balance = 1
        /\ tasks[t].failed_count = 0

\* the messages the run stores for an Executor invocation that raised
ExcMessages == {MsgExc, MsgRetryExc}

\* the batch that run f has in flight settles with the results res: every
\* dispatched detail takes the status of its own result, and one whose
\* invocation raised is FAILED with the text of the exception in its message
ExcIsolated(f, res) ==
    LET t == flow[f].task_id
        run == flow[f].tasks_to_run
    IN /\ RunGather(f, res) \/ RunRetryGather(f, res)
       /\ \A k \in 1..Len(run) :
             /\ details'[t][run[k]].status = Outcome(res[k])
             /\ res[k] = "exc" => details'[t][run[k]].result_message \in ExcMessages

\* C23: when an Executor invocation of a batch raises, the batch still settles
\* and the run goes on to store its counts; the detail whose invocation raised
\* is FAILED with the exception text in its message, every other dispatched
\* detail of the batch takes the status of its own result, and the next retry
\* round takes the detail as a candidate while its retry count is below 2.
C23_ExceptionIsolated ==
    [][\A f \in FlowIds :
          LET t == flow[f].task_id IN
          /\ (/\ flow[f].kind = "run" /\ flow[f].pc \in {"gather", "rgather"}
              /\ flow'[f].kind = "run" /\ flow'[f].pc # flow[f].pc) =>
                /\ flow'[f].pc \in {"counts", "rcounts"}
                /\ \E res \in Results(flow[f]) : ExcIsolated(f, res)
          /\ (/\ flow[f].kind = "run" /\ flow[f].pc = "retry"
              /\ flow[f].retry_round < 2
              /\ flow'[f].kind = "run" /\ flow'[f].pc # flow[f].pc) =>
                \A i \in Items(t) :
                    (/\ Status(t, i) = R_FAILED
                     /\ details[t][i].result_message \in ExcMessages
                     /\ flow[f].retry_counts[i] < 2) =>
                        /\ flow'[f].pc = "rbatch"
                        /\ i \in SeqToSet(flow'[f].details_to_retry)]_vars

RetryDispatches(f) ==
    /\ flow[f].kind = "run" /\ flow[f].pc = "rbatch"
    /\ flow'[f].kind = "run"
    /\ Len(flow'[f].log) > Len(flow[f].log)

\* the details of run f's task that are FAILED with a retry count below the limit
Candidates(f) ==
    {i \in Items(flow[f].task_id) :
        Status(flow[f].task_id, i) = R_FAILED /\ flow[f].retry_counts[i] < 2}

\* C25: a run hands a batch of a retry round to the Executor only when no
\* detail of its initial queue is PENDING or RUNNING any more; a retry round
\* that finds no FAILED detail with a retry count below 2 ends the retry phase,
\* and after the retry phase has ended the run dispatches nothing more.
C25_RetryAfterInitialPass ==
    [][\A f \in FlowIds :
          LET t == flow[f].task_id IN
          /\ RetryDispatches(f) =>
                \A i \in SeqToSet(flow[f].pending_details) :
                    Status(t, i) \notin {R_PENDING, R_RUNNING}
          /\ (/\ flow[f].kind = "run" /\ flow[f].pc = "retry"
              /\ flow'[f].kind = "run" /\ flow'[f].pc # "retry"
              /\ Candidates(f) = {}) => flow'[f].pc = "final"
          /\ (/\ flow[f].kind = "run" /\ flow[f].pc \in {"final", "final_counts"}
              /\ flow'[f].kind = "run") =>
                /\ flow'[f].pc \in {"final", "final_counts"}
                /\ flow'[f].log = flow[f].log]_vars

\* the details of task t with the given status, and those of them that carry
\* a balance
Count(t, st) == Cardinality({i \in Items(t) : Status(t, i) = st})
Balances(t) ==
    Cardinality({i \in Items(t) : Status(t, i) = R_SUCCESS
                                   /\ details[t][i].balance # NoBalance})

\* C26: when the results of a retry batch are applied, each detail that
\* succeeded moves the run's counters by failed -1, success +1 and adds its
\* balance once, a detail that failed again moves nothing, and both counters
\* are stored in one update; so between batches the run's success_count is the
\* number of SUCCESS details, its total_balance the sum of their balances, and
\* its failed_count, with no detail left RUNNING, the number of FAILED details.
C26_NoDoubleCount ==
    [][\A f \in FlowIds :
          LET t == flow[f].task_id
              won == {i \in Items(t) : Status(t, i) = R_RUNNING
                                        /\ details'[t][i].status = R_SUCCESS}
          IN /\ (/\ flow[f].kind = "run" /\ flow[f].pc = "rgather"
                 /\ flow'[f].kind = "run" /\ flow'[f].pc = "rcounts") =>
                   /\ flow'[f].success_count = flow[f].success_count + Cardinality(won)
                   /\ flow'[f].failed_count = flow[f].failed_count - Cardinality(won)
                   /\ flow'[f].total_balance = flow[f].total_balance + Cardinality(won)
                   /\ flow'[f].success_count = Count(t, R_SUCCESS)'
                   /\ flow'[f].total_balance = Balances(t)'
                   /\ Count(t, R_RUNNING)' = 0 =>
                         flow'[f].failed_count = Count(t, R_FAILED)'
             /\ (/\ flow[f].kind = "run" /\ flow[f].pc = "rcounts"
                 /\ flow'[f].kind = "run" /\ flow'[f].pc # "rcounts") =>
                   /\ tasks'[t].success_count = flow[f].success_count
                   /\ tasks'[t].failed_count = flow[f].failed_count
                   /\ tasks'[t].total_balance = flow[f].total_balance
                   /\ tasks'[t].success_count = Count(t, R_SUCCESS)
                   /\ Count(t, R_RUNNING) = 0 =>
                         tasks'[t].failed_count = Count(t, R_FAILED)]_vars

\* a run has stored the counts of a retry batch: one detail failed in the
\* initial pass and succeeded in a retry round, another failed again
C26_Witness ==
    \E f \in RunFlows :
        LET t == flow[f].task_id IN
        /\ flow[f].pc \in {"rbatch", "rsleep"}
        /\ tasks[t].success_count = 1 /\ tasks[t].failed_count = 1
        /\ tasks[t].total_balance = 1
        /\ \E i, j \in Items(t) :
              /\ Status(t, i) = R_SUCCESS
              /\ details[t][i].result_message = MsgOkRetry
              /\ Attempts(f, i) >= 2
              /\ Status(t, j) = R_FAILED
              /\ details[t][j].result_message = MsgRetryStep

\* the batch that run f takes from queue in this step, when it takes one
BatchTaken(f, queue) ==
    IF /\ flow[f].batch_start < Len(queue)
       /\ flow[f].task_id \notin cancelled_tasks
       /\ flow'[f].kind = "run"
       /\ flow'[f].pc # flow[f].pc \/ flow'[f].batch_start # flow[f].batch_start
    THEN SeqToSet(Slice(queue, flow[f].batch_start, flow[f].batch_start + 2))
    ELSE {}

AppliedInOrder(f, res) ==
    LET t == flow[f].task_id
        run == flow[f].tasks_to_run
    IN /\ RunGather(f, res) \/ RunRetryGather(f, res)
       /\ \A k \in 1..Len(run) :
             /\ details'[t][run[k]].status = Outcome(res[k])
             /\ details'[t][run[k]].result_message # NULL

\* C28: when a batch of the initial pass or of a retry round settles, every
\* detail that was handed to the Executor and whose account is still in the
\* store takes the result of its own invocation, also when another detail of
\* the batch was not dispatched because its account is missing.
C28_OwnResultApplied ==
    [][\A f \in FlowIds :
          (/\ flow[f].kind = "run" /\ flow[f].pc \in {"gather", "rgather"}
           /\ flow'[f].kind = "run" /\ flow'[f].pc # flow[f].pc
           /\ \A k \in 1..Len(flow[f].tasks_to_run) :
                 details[flow[f].task_id][flow[f].tasks_to_run[k]].account_code
                     \in accounts) =>
              \E res \in BatchResults(f) : AppliedInOrder(f, res)]_vars

\* an Executor invocation for detail i of task t is in flight: a run has the
\* detail in the batch it awaits, or a single retry awaits its invocation
InFlight(t, i) ==
    \E f \in FlowIds :
        /\ flow[f].task_id = t
        /\ \/ /\ flow[f].kind = "run" /\ flow[f].pc \in {"gather", "rgather"}
              /\ i \in SeqToSet(flow[f].tasks_to_run)
           \/ /\ flow[f].kind = "retry" /\ flow[f].pc = "wait"
              /\ flow[f].detail_id = i

\* C29: while the process is up, a detail is RUNNING only while an Executor
\* invocation for it is in flight; so no detail is RUNNING once the coroutines
\* that worked on it have returned, and none of a finalized task is.
C29_RunningNotResting ==
    up => \A t \in TaskIds : \A i \in Items(t) :
              Status(t, i) = R_RUNNING => InFlight(t, i)

\* the changes of a detail's status that one write may make
WriteAllowed(a, b) ==
    \/ a = b
    \/ <<a, b>> \in {<<R_PENDING, R_RUNNING>>, <<R_RUNNING, R_SUCCESS>>,
                     <<R_RUNNING, R_FAILED>>, <<R_FAILED, R_PENDING>>,
                     <<R_PENDING, R_FAILED>>}

\* run f takes detail i into a batch of a retry round: lines 369-374 write
\* PENDING and then RUNNING over the FAILED row in one step of the coroutine
RequeuedAndSent(f, i) ==
    /\ RetryDispatches(f) /\ Dispatches(f, i)
    /\ Status(flow[f].task_id, i) = R_FAILED
    /\ details'[flow[f].task_id][i].status = R_RUNNING

\* C30: every change of a detail's status is PENDING to RUNNING, RUNNING to
\* SUCCESS or FAILED, FAILED to PENDING, or PENDING to FAILED, the retry rounds
\* taking a FAILED detail to RUNNING by way of PENDING; no step of any
\* interleaving takes a detail from SUCCESS to another status, from FAILED
\* straight to RUNNING or SUCCESS, from RUNNING to PENDING or from PENDING to
\* SUCCESS.
C30_StatusChanges ==
    [][\A t \in TaskIds : \A i \in Items(t) \cap Idx(details', t) :
          \/ WriteAllowed(Status(t, i), details'[t][i].status)
          \/ \E f \in FlowIds : flow[f].task_id = t /\ RequeuedAndSent(f, i)]_vars

\* the changes of a task's stored status that the claim lists
TaskChangeListed(a, b) ==
    \/ a = b
    \/ <<a, b>> \in {<<T_PENDING, T_RUNNING>>, <<T_RUNNING, T_COMPLETED>>,
                     <<T_RUNNING, T_FAILED>>, <<T_COMPLETED, T_RUNNING>>,
                     <<T_FAILED, T_RUNNING>>, <<T_PENDING, T_FAILED>>}

\* C31: every change of a task's stored status is PENDING to RUNNING, RUNNING
\* to COMPLETED or FAILED, COMPLETED or FAILED to RUNNING, or PENDING to FAILED;
\* no step takes a task from FAILED to COMPLETED or from COMPLETED to FAILED.
C31_TaskStatusChanges ==
    [][\A t \in TaskIds :
          (Exists(t) /\ Exists(t)') =>
              TaskChangeListed(tasks[t].status, tasks'[t].status)]_vars

\* the row of detail i of task t carries no message, balance or screenshot
Cleared(ds, t, i) ==
    /\ ds[t][i].result_message = NULL
    /\ ds[t][i].balance = NoBalance
    /\ ds[t][i].screenshot_path = NULL

\* C32: a detail that a retry round hands to the Executor has its message, its
\* balance and its screenshot cleared when it is set RUNNING.
C32_RetryClears ==
    [][\A f \in FlowIds :
          RetryDispatches(f) =>
              \A i \in Items(flow[f].task_id) :
                  Dispatches(f, i) =>
                      /\ details'[flow[f].task_id][i].status = R_RUNNING
                      /\ Cleared(details', flow[f].task_id, i)]_vars


\* a turn of the loop over the batches of the initial pass is under way
InBatchTurn(f) == flow[f].kind = "run" /\ flow[f].pc \in {"gather", "counts", "sleep"}

\* a retry round is under way
InRetryRound(f) ==
    flow[f].kind = "run" /\ flow[f].pc \in {"rbatch", "rgather", "rcounts", "rsleep"}

\* the loops of a run stay inside their bounds: the turn under way is one of the
\* ceil(P / BATCH_SIZE) turns over the P queued items, the round under way is one
\* of the MAX_AUTO_RETRIES rounds
LoopsBounded ==
    \A f \in FlowIds :
        /\ InBatchTurn(f) =>
              /\ flow[f].batch_start % BATCH_SIZE = 0
              /\ flow[f].batch_start < Len(flow[f].pending_details)
        /\ InRetryRound(f) => flow[f].retry_round < MAX_AUTO_RETRIES

\* no run of task t is scheduled or running, and t is stored COMPLETED or FAILED
Finished(t) ==
    /\ RunsInFlight(t) = {}
    /\ tasks[t].status \in {T_COMPLETED, T_FAILED}

\* C33: when every Executor invocation returns or raises, every run of a task
\* comes to its end and leaves the task COMPLETED or FAILED, and on its way it
\* takes at most ceil(P / 2) turns of the initial pass and at most 2 retry
\* rounds, whatever the results and whether or not a cancel arrives.
C33_RunTerminates ==
    /\ []LoopsBounded
    /\ \A t \in TaskIds : (RunsInFlight(t) # {}) ~> Finished(t)

\* a run over three items has gone through its retry rounds and has ended
C33_Witness ==
    \E t \in TaskIds :
        /\ Finished(t)
        /\ Len(details[t]) = NumAccounts
        /\ \E i \in Items(t) : details[t][i].result_message \in {MsgRetryStep, MsgRetryExc}
        /\ \E i \in Items(t) : details[t][i].status = R_SUCCESS


\* C34: at most BATCH_SIZE items of one task are RUNNING with an Executor
\* invocation in flight, whatever the interleaving of runs, retry rounds, cancel,
\* resume, retry-all and single-item retries.
C34_BoundedConcurrency ==
    \A t \in TaskIds :
        Exists(t) => Cardinality({i \in Items(t) : InFlight(t, i)}) <= BATCH_SIZE


\* C35: the stored success_count and failed_count of a task are never negative,
\* also after resume or retry-all took one off failed_count for every FAILED
\* item of a task whose stored failed_count was lower than that number.
C35_CountersNonNegative ==
    \A t \in TaskIds :
        Exists(t) => tasks[t].success_count >= 0 /\ tasks[t].failed_count >= 0


\* the stored counters of task t in store tk are the numbers of its SUCCESS and
\* of its FAILED items in ds
Counted(tk, ds, t) ==
    /\ tk[t].success_count = Cardinality(WithStatus(ds, t, {R_SUCCESS}))
    /\ tk[t].failed_count = Cardinality(WithStatus(ds, t, {R_FAILED}))

\* the background execution of a single-item retry ends
RetryEnds(f) ==
    /\ flow[f].kind = "retry" /\ flow[f].pc = "wait"
    /\ flow'[f].kind = "none"

\* C36: a single-item retry of a FAILED item of a task at rest whose counters
\* are the numbers of its SUCCESS and FAILED items (the request has taken the
\* item off both) ends with the counters again equal to those numbers, whether
\* the retry succeeds or fails.
C36_SingleRetryCounted ==
    [][\A f \in FlowIds :
          (RetryEnds(f) /\ Counted(tasks, details, flow[f].task_id)) =>
              Counted(tasks', details', flow[f].task_id)]_vars


\* C37: a cancel flag does not outlive the run it was aimed at: while no run of
\* a task is in flight the task is not in cancelled_tasks, also when the cancel
\* request (status check, then insertion of the flag) is handled while the run
\* writes its final status and cleans up.
C37_FlagWithRun ==
    \A t \in TaskIds : RunsInFlight(t) = {} => t \notin cancelled_tasks


\* a run has flipped its task to RUNNING and has not yet written the final status
BeforeFinal(f) ==
    /\ flow[f].kind = "run"
    /\ flow[f].pc \notin {"scheduled", "final_counts"}

\* C38: while a run is in flight, from its flip to RUNNING until it writes the
\* final status, the task is stored as RUNNING; so a task stored as COMPLETED or
\* FAILED has no batch dispatched or awaited.
C38_RunningWhileInFlight ==
    \A f \in FlowIds :
        BeforeFinal(f) => tasks[flow[f].task_id].status = T_RUNNING


\* a run ends through its normal path: the last statement before the finally
\* block stores the counters
RunEnds(f) ==
    /\ flow[f].kind = "run" /\ flow[f].pc = "final_counts"
    /\ flow'[f].kind = "none" /\ up'

\* the stored counters of task t in store tk are the numbers of its SUCCESS and
\* FAILED items in ds and the sum of the outcomes of the SUCCESS items
Resynced(tk, ds, t) ==
    /\ Counted(tk, ds, t)
    /\ tk[t].total_balance =
          Cardinality({i \in WithStatus(ds, t, {R_SUCCESS}) : ds[t][i].balance # NoBalance})

\* C39: run_task rebuilds its counters from the stored statuses when it starts,
\* so a run that ends through its normal path leaves success_count, failed_count
\* and total_balance equal to the number of SUCCESS items, the number of FAILED
\* items and the sum of the SUCCESS outcomes, whatever was stored before.
C39_CountersResynced ==
    [][\A f \in FlowIds :
          RunEnds(f) => Resynced(tasks', details', flow[f].task_id)]_vars


\* the invocations whose automation is running
Automating == {f \in FlowIds : flow[f].kind = "exec" /\ flow[f].pc = "running"}

SamePair(f, g) ==
    flow[f].email = flow[g].email /\ flow[f].order_code = flow[g].order_code

\* no two automations run for one pair of e-mail address and task code
OnePerPair == \A f, g \in Automating : SamePair(f, g) => f = g

\* invocation f takes its first step while an automation runs for its pair
SecondStarts(f) ==
    /\ flow[f].kind = "exec" /\ flow[f].pc = "called"
    /\ flow'[f].pc # "called"
    /\ \E g \in Automating : SamePair(f, g)

\* C40: at most one Executor invocation is in flight for a pair of e-mail
\* address and task code: an invocation started while another runs for the same
\* pair returns a failure at once, runs no automation, and leaves the other's
\* entry in running_automations.
C40_OneInvocationPerPair ==
    /\ []OnePerPair
    /\ [][\A f \in FlowIds :
             SecondStarts(f) =>
                 /\ flow'[f].pc = "returned" /\ flow'[f].result = ResRefused
                 /\ running_automations' = running_automations]_vars

\* an invocation has been refused while the automation of another for the same
\* pair runs and is still in the dict
C40_Witness ==
    \E f, g \in FlowIds :
        /\ g \in Automating
        /\ flow[f].kind = "exec" /\ flow[f].result = ResRefused
        /\ SamePair(f, g)
        /\ <<Key(flow[g].email, flow[g].order_code), g>> \in running_automations

====
